---- MODULE Spec2Model ----
(***************************************************************************)
(* A model of the Soorj interpreter (src/lexer.py, src/parser.py,          *)
(* src/interpreter.py, src/soorj.py).                                      *)
(*                                                                         *)
(* Text is modelled as sequences of Unicode code points: a source string,  *)
(* a token's lexeme, an identifier name and a Soorj string value are all   *)
(* tuples of integers (<<1377>> is the one-letter name U+0561).            *)
(* The Python call stack is the variable `stack`; every action is one step *)
(* of the function whose frame is on top of it.                            *)
(***************************************************************************)
EXTENDS Integers, Sequences, FiniteSets, TLC

VARIABLES
    stack,        \* the Python call stack: the frames of the functions and methods being run
    ctl,          \* "run": top frame runs; "return": a callee returned `val`; "raise": `exc` propagates; "halt"
    val,          \* the value returned by the frame that was just popped
    exc,          \* the exception being propagated
    envs,         \* the Environment objects ever created, by identity (index)
    environment,  \* Interpreter.environment: the identity of the current Environment
    out,          \* standard output, one entry per print() call
    source,       \* Lexer.source
    position,     \* Lexer.position
    line,         \* Lexer.line
    column,       \* Lexer.column
    tokens,       \* Lexer.tokens, then Parser.tokens
    current,      \* Parser.current
    statements    \* Parser.parse's local list `statements`

vars == <<stack, ctl, val, exc, envs, environment, out,
          source, position, line, column, tokens, current, statements>>

lexvars == <<source, position, line, column>>
parsevars == <<tokens, current, statements>>
evalvars == <<envs, environment>>

(***************************************************************************)
(* Bounds of the model.                                                    *)
(***************************************************************************)
MaxStack == 64      \* deepest Python call stack the model follows
MaxDigits == 4      \* fractional digits rendered by str(float)
MaxLit == 2         \* number literals of the generated programs are 0..MaxLit
MaxInputs == 2      \* inputs of a REPL session after its declarations
MaxSource == 3      \* longest source drawn from SourceAlphabet
MaxTokens == 3      \* longest token list drawn from TokenTypes (without its EOF)

(***************************************************************************)
(* Text constants (code points).                                           *)
(***************************************************************************)
kw_if == <<1381, 1385, 1381>>
kw_else == <<1392, 1402>>
kw_while == <<1396, 1387, 1398, 1401, 1415>>
kw_function == <<1379, 1400, 1408, 1390>>
kw_return == <<1407, 1400, 1410, 1408>>
kw_true == <<1377, 1397, 1400>>
kw_false == <<1400, 1401>>
kw_null == <<1392, 1381, 1401>>
kw_and == <<1415>>
kw_or == <<1391, 1377, 1396>>
kw_not == <<1401, 1387>>
name_gre == <<1379, 1408, 1383>>
name_tiv == <<1385, 1387, 1406>>
name_bar == <<1378, 1377, 1404>>
op_plus == <<43>>
op_minus == <<45>>
op_multiply == <<42>>
op_divide == <<47>>
op_modulo == <<37>>
op_equals == <<61, 61>>
op_not_equals == <<33, 61>>
op_less == <<60>>
op_greater == <<62>>
op_less_equal == <<60, 61>>
op_greater_equal == <<62, 61>>
str_None == <<78, 111, 110, 101>>
str_True == <<84, 114, 117, 101>>
str_False == <<70, 97, 108, 115, 101>>
str_object == <<60, 111, 98, 106, 101, 99, 116, 62>>

(***************************************************************************)
(* Python values.  A float or int is the exact rational n/d in lowest      *)
(* terms (d > 0); the model's programs stay within numbers a double holds  *)
(* exactly.                                                                *)
(***************************************************************************)
Abs(x) == IF x < 0 THEN -x ELSE x

RECURSIVE Gcd(_, _)
Gcd(a, b) == IF b = 0 THEN a ELSE Gcd(b, a % b)

PyNone == [py |-> "None"]
PyBool(b) == [py |-> "bool", b |-> b]
PyStr(s) == [py |-> "str", s |-> s]
PyObject(o) == [py |-> "object", obj |-> o]

PyNum(kind, n, d) ==
    LET g == Gcd(Abs(n), d)
    IN  [py |-> kind, n |-> n \div g, d |-> d \div g]

PyFloat(n, d) == PyNum("float", n, d)
PyInt(n) == [py |-> "int", n |-> n, d |-> 1]

IsNum(v) == v.py \in {"int", "float", "bool"}
\* the numeric value Python uses for a bool, int or float operand
NumN(v) == IF v.py = "bool" THEN (IF v.b THEN 1 ELSE 0) ELSE v.n
NumD(v) == IF v.py = "bool" THEN 1 ELSE v.d

\* Python's == on the values a SoorjValue can hold
PyEq(a, b) ==
    IF IsNum(a) /\ IsNum(b) THEN NumN(a) * NumD(b) = NumN(b) * NumD(a)
    ELSE IF a.py = "str" /\ b.py = "str" THEN a.s = b.s
    ELSE IF a.py = "None" /\ b.py = "None" THEN TRUE
    ELSE IF a.py = "object" /\ b.py = "object" THEN a.obj = b.obj
    ELSE FALSE

\* int op float is a float
NumKind(a, b) == IF a.py = "float" \/ b.py = "float" THEN "float" ELSE "int"

PyAdd(a, b) == PyNum(NumKind(a, b), a.n * b.d + b.n * a.d, a.d * b.d)
PySub(a, b) == PyNum(NumKind(a, b), a.n * b.d - b.n * a.d, a.d * b.d)
PyMul(a, b) == PyNum(NumKind(a, b), a.n * b.n, a.d * b.d)
\* true division always yields a float; b is not zero
PyDiv(a, b) ==
    IF b.n > 0 THEN PyNum("float", a.n * b.d, a.d * b.n)
    ELSE PyNum("float", -(a.n * b.d), a.d * (-b.n))
\* floor modulo: the result has the sign of the divisor; y is not zero
IntMod(x, y) == IF y > 0 THEN x % y ELSE -((-x) % (-y))
PyMod(a, b) == PyNum(NumKind(a, b), IntMod(a.n * b.d, b.n * a.d), a.d * b.d)
PyLess(a, b) == a.n * b.d < b.n * a.d
PyNeg(a) == [a EXCEPT !.n = -a.n]

\* str() of a non-negative integer
RECURSIVE Digits(_)
Digits(n) == IF n < 10 THEN <<48 + n>> ELSE Digits(n \div 10) \o <<48 + (n % 10)>>

\* the fractional digits of r/d (0 <= r < d), at most k of them
RECURSIVE FracDigits(_, _, _)
FracDigits(r, d, k) ==
    IF r = 0 \/ k = 0 THEN <<>>
    ELSE <<48 + ((r * 10) \div d)>> \o FracDigits((r * 10) % d, d, k - 1)

\* Python's str() of an int or a float
PyNumStr(v) ==
    LET sign == IF v.n < 0 THEN <<45>> ELSE <<>>
        whole == Abs(v.n) \div v.d
        rest == Abs(v.n) % v.d
    IN  IF v.py = "int" THEN sign \o Digits(whole)
        ELSE sign \o Digits(whole) \o <<46>>
               \o (IF rest = 0 THEN <<48>> ELSE FracDigits(rest, v.d, MaxDigits))

\* Python's str() of the value a SoorjValue holds
PyStrOf(v) ==
    CASE v.py = "None" -> str_None
      [] v.py = "bool" -> (IF v.b THEN str_True ELSE str_False)
      [] v.py = "str" -> v.s
      [] v.py = "object" -> str_object
      [] OTHER -> PyNumStr(v)

(***************************************************************************)
(* SoorjValue                                                              *)
(***************************************************************************)
SoorjValue(value, type_name) == [type_name |-> type_name, value |-> value]

Null == SoorjValue(PyNone, "null")

SoorjValue_str(v) ==
    IF v.type_name = "null" THEN kw_null
    ELSE IF v.type_name = "boolean" THEN (IF v.value.b THEN kw_true ELSE kw_false)
    ELSE IF v.type_name = "string" THEN v.value.s
    ELSE PyStrOf(v.value)

is_truthy(v) ==
    IF v.type_name = "null" THEN FALSE
    ELSE IF v.type_name = "boolean" THEN v.value.b
    ELSE IF v.type_name = "number" THEN v.value.n # 0
    ELSE IF v.type_name = "string" THEN Len(v.value.s) > 0
    ELSE TRUE

(***************************************************************************)
(* AST nodes (the dataclasses of src/parser.py).  An absent Optional field *)
(* is NoNode (ReturnStatement.value) or NoBlock (IfStatement.else_branch). *)
(***************************************************************************)
NoNode == [k |-> "None"]
NoBlock == [some |-> FALSE, list |-> <<>>]
SomeBlock(list) == [some |-> TRUE, list |-> list]
NumberLiteral(value) == [k |-> "NumberLiteral", value |-> value]
StringLiteral(value) == [k |-> "StringLiteral", value |-> value]
BooleanLiteral(value) == [k |-> "BooleanLiteral", value |-> value]
NullLiteral == [k |-> "NullLiteral"]
Identifier(name) == [k |-> "Identifier", name |-> name]
BinaryOp(left, operator, right) ==
    [k |-> "BinaryOp", left |-> left, operator |-> operator, right |-> right]
UnaryOp(operator, operand) == [k |-> "UnaryOp", operator |-> operator, operand |-> operand]
Assignment(target, value) == [k |-> "Assignment", target |-> target, value |-> value]
FunctionCall(name, arguments) == [k |-> "FunctionCall", name |-> name, arguments |-> arguments]
ExpressionStatement(expression) == [k |-> "ExpressionStatement", expression |-> expression]
IfStatement(condition, then_branch, else_branch) ==
    [k |-> "IfStatement", condition |-> condition,
     then_branch |-> then_branch, else_branch |-> else_branch]
WhileStatement(condition, body) == [k |-> "WhileStatement", condition |-> condition, body |-> body]
ReturnStatement(value) == [k |-> "ReturnStatement", value |-> value]
FunctionDeclaration(name, parameters, body) ==
    [k |-> "FunctionDeclaration", name |-> name, parameters |-> parameters, body |-> body]
Program(stmts) == [k |-> "Program", statements |-> stmts]

\* Python's truth value of an Optional[List]: None and [] are both falsy
ListTruthy(b) == b.some /\ Len(b.list) > 0

(***************************************************************************)
(* Function objects                                                        *)
(***************************************************************************)
SoorjFunction(name, parameters, body) ==
    [k |-> "SoorjFunction", name |-> name, parameters |-> parameters, body |-> body]
BuiltinFunction(name) == [k |-> "BuiltinFunction", name |-> name]

(***************************************************************************)
(* Exceptions                                                              *)
(***************************************************************************)
\* line: the line number a lexical or syntax error's message carries (0: none)
Exception(type, msg, value) == [type |-> type, msg |-> msg, value |-> value, line |-> 0]
NoExc == Exception("none", "", Null)
RuntimeError(msg) == Exception("RuntimeError", msg, Null)
ReturnValue(value) == Exception("ReturnValue", "", value)
ZeroDivisionError(msg) == Exception("ZeroDivisionError", msg, Null)
ValueError(msg) == Exception("ValueError", msg, Null)
SyntaxError(msg) == Exception("SyntaxError", msg, Null)
ValueErrorAt(msg, line_) == [ValueError(msg) EXCEPT !.line = line_]
SyntaxErrorAt(msg, line_) == [SyntaxError(msg) EXCEPT !.line = line_]

\* `except RuntimeError` and `except Exception` (every class above is an Exception)
IsRuntimeError(e) == e.type = "RuntimeError"

(***************************************************************************)
(* Environment.  envs[e] is the Environment object with identity e;        *)
(* parent = 0 is None.                                                     *)
(***************************************************************************)
NoEnv == 0
EmptyDict == [x \in {} |-> Null]
DictSet(d, key, value) == [x \in (DOMAIN d) \cup {key} |-> IF x = key THEN value ELSE d[x]]

Environment(parent) == [parent |-> parent, variables |-> EmptyDict]

\* a binding made in the global environment, whichever environment is current
define_global(E, e, name, value) == [E EXCEPT ![1].variables = DictSet(@, name, value)]
\* `self.variables[name] = value`
define(E, e, name, value) == [E EXCEPT ![e].variables = DictSet(@, name, value)]

Found(value) == [ok |-> TRUE, value |-> value]
NotFound == [ok |-> FALSE, value |-> Null]

RECURSIVE get(_, _, _)
get(E, e, name) ==
    IF name \in DOMAIN E[e].variables THEN Found(E[e].variables[name])
    ELSE IF E[e].parent # NoEnv THEN get(E, E[e].parent, name)
    ELSE NotFound

\* an assignment to the outermost binding of the name in the chain
RECURSIVE assign_outermost(_, _, _, _)
assign_outermost(E, e, name, value) ==
    LET outer == IF E[e].parent # NoEnv THEN assign_outermost(E, E[e].parent, name, value)
                 ELSE [ok |-> FALSE, envs |-> E]
    IN  IF outer.ok THEN outer
        ELSE IF name \in DOMAIN E[e].variables
        THEN [ok |-> TRUE, envs |-> define(E, e, name, value)]
        ELSE [ok |-> FALSE, envs |-> E]

\* the heap after the assignment, or ok = FALSE for the RuntimeError
RECURSIVE assign(_, _, _, _)
assign(E, e, name, value) ==
    IF name \in DOMAIN E[e].variables THEN [ok |-> TRUE, envs |-> define(E, e, name, value)]
    ELSE IF E[e].parent # NoEnv THEN assign(E, E[e].parent, name, value)
    ELSE [ok |-> FALSE, envs |-> E]

(***************************************************************************)
(* float(s) of Python for the strings the model meets: optional blanks     *)
(* around an optionally signed run of digits holding at most one '.'.      *)
(***************************************************************************)
IsDigit(c) == 48 <= c /\ c <= 57
IsBlank(c) == c \in {32, 9, 10, 13}

RECURSIVE LStrip(_)
LStrip(s) == IF Len(s) > 0 /\ IsBlank(s[1]) THEN LStrip(Tail(s)) ELSE s

RECURSIVE RStrip(_)
RStrip(s) == IF Len(s) > 0 /\ IsBlank(s[Len(s)]) THEN RStrip(SubSeq(s, 1, Len(s) - 1)) ELSE s

\* scans s from index i: n the digits read so far, d the power of ten of the
\* fractional digits read (0: no '.' yet), seen whether a digit was read
RECURSIVE ScanFloat(_, _, _, _, _)
ScanFloat(s, i, n, d, seen) ==
    IF i > Len(s) THEN [ok |-> seen, n |-> n, d |-> IF d = 0 THEN 1 ELSE d]
    ELSE IF IsDigit(s[i])
         THEN ScanFloat(s, i + 1, n * 10 + (s[i] - 48), d * 10, TRUE)
    ELSE IF s[i] = 46 /\ d = 0 THEN ScanFloat(s, i + 1, n, 1, seen)
    ELSE [ok |-> FALSE, n |-> 0, d |-> 1]

float(s) ==
    LET t == RStrip(LStrip(s))
        signed == Len(t) > 0 /\ t[1] \in {43, 45}
        body == IF signed THEN Tail(t) ELSE t
        r == ScanFloat(body, 1, 0, 0, FALSE)
    IN  IF r.ok
        THEN [ok |-> TRUE, value |-> PyFloat(IF signed /\ t[1] = 45 THEN -r.n ELSE r.n, r.d)]
        ELSE [ok |-> FALSE, value |-> PyFloat(0, 1)]

(***************************************************************************)
(* Lexer (src/lexer.py).  A Lexer object is the record L of its fields     *)
(* source, position, line and column; NoChar is the None current_char      *)
(* returns at the end of the source.  str.isdigit is IsDigit: the sources  *)
(* of the model hold no digit outside 0..9.                                *)
(***************************************************************************)
Token(type, value, line_, column_) ==
    [type |-> type, value |-> value, line |-> line_, column |-> column_]

Lexer(src) == [source |-> src, position |-> 0, line |-> 1, column |-> 1]

NoChar == -1

keywords(identifier) ==
    CASE identifier = kw_if -> "IF"
      [] identifier = kw_else -> "ELSE"
      [] identifier = kw_while -> "WHILE"
      [] identifier = kw_function -> "FUNCTION"
      [] identifier = kw_return -> "RETURN"
      [] identifier = kw_true -> "TRUE"
      [] identifier = kw_false -> "FALSE"
      [] identifier = kw_null -> "NULL"
      [] identifier = kw_and -> "AND"
      [] identifier = kw_or -> "OR"
      [] identifier = kw_not -> "NOT"
      [] OTHER -> "IDENTIFIER"

\* "none": the character is not a key of the dict
single_chars(char) ==
    CASE char = 43 -> "PLUS"
      [] char = 45 -> "MINUS"
      [] char = 42 -> "MULTIPLY"
      [] char = 47 -> "DIVIDE"
      [] char = 37 -> "MODULO"
      [] char = 40 -> "LEFT_PAREN"
      [] char = 41 -> "RIGHT_PAREN"
      [] char = 123 -> "LEFT_BRACE"
      [] char = 125 -> "RIGHT_BRACE"
      [] char = 44 -> "COMMA"
      [] OTHER -> "none"

two_chars(two_char) ==
    CASE two_char = op_equals -> "EQUALS"
      [] two_char = op_not_equals -> "NOT_EQUALS"
      [] two_char = op_less_equal -> "LESS_EQUAL"
      [] two_char = op_greater_equal -> "GREATER_EQUAL"
      [] OTHER -> "none"

current_char(L) == IF L.position >= Len(L.source) THEN NoChar ELSE L.source[L.position + 1]

peek_char(L) ==
    IF L.position + 1 >= Len(L.source) THEN NoChar ELSE L.source[L.position + 2]

\* an advance that does not look at the length of the source
advance_unchecked(L) ==
    IF L.position < Len(L.source) /\ L.source[L.position + 1] = 10
    THEN [L EXCEPT !.line = @ + 1, !.column = 1, !.position = @ + 1]
    ELSE [L EXCEPT !.column = @ + 1, !.position = @ + 1]

advance(L) ==
    IF L.position < Len(L.source)
    THEN IF L.source[L.position + 1] = 10
         THEN [L EXCEPT !.line = @ + 1, !.column = 1, !.position = @ + 1]
         ELSE [L EXCEPT !.column = @ + 1, !.position = @ + 1]
    ELSE L

RECURSIVE skip_whitespace(_)
skip_whitespace(L) ==
    IF current_char(L) \in {32, 9, 13} THEN skip_whitespace(advance(L)) ELSE L

is_armenian_char(char) ==
    (1328 <= char /\ char <= 1423) \/ (64275 <= char /\ char <= 64279)

is_identifier_char(char) == is_armenian_char(char)

is_valid_string_char(char) ==
    \/ is_armenian_char(char)
    \/ IsDigit(char)
    \/ char \in {32, 9, 10, 13, 46, 44, 33, 63, 58, 59, 45, 40, 41, 91, 93, 123, 125,
                 34, 39, 47, 92}
    \/ char \in {1371, 1372, 1373, 1374, 1375, 1417, 1370}

\* what a scanning function of the Lexer did: the Lexer after it and its token,
\* or the exception it raised
Scanned(L, token) == [ok |-> TRUE, lexer |-> L, token |-> token, exc |-> NoExc]
ScanError(L, e) == [ok |-> FALSE, lexer |-> L, token |-> Token("none", <<>>, 0, 0), exc |-> e]

\* the `while` loop of read_number
RECURSIVE read_number_loop(_, _)
read_number_loop(L, number_str) ==
    IF IsDigit(current_char(L)) \/ current_char(L) = 46
    THEN read_number_loop(advance(L), Append(number_str, current_char(L)))
    ELSE [lexer |-> L, value |-> number_str]

read_number(L) ==
    LET r == read_number_loop(L, <<>>)
    IN  Scanned(r.lexer, Token("NUMBER", r.value, r.lexer.line, L.column))

\* the character an escape sequence stands for
escape(next_char) ==
    CASE next_char = 110 -> 10
      [] next_char = 116 -> 9
      [] next_char = 114 -> 13
      [] OTHER -> next_char

\* the body of the `while` loop of read_string, at a character that is not the
\* closing quote: ok = FALSE when it raises
read_string_iteration(L, string_value) ==
    LET char == current_char(L)
        next_char == current_char(advance(L))
    IN  IF char = 92
        THEN [ok |-> TRUE, lexer |-> advance(advance(L)),
              value |-> IF next_char = NoChar THEN string_value
                        ELSE Append(string_value, escape(next_char))]
        ELSE IF ~is_valid_string_char(char)
        THEN [ok |-> FALSE, lexer |-> L, value |-> string_value]
        ELSE [ok |-> TRUE, lexer |-> advance(L), value |-> Append(string_value, char)]

\* the `while` loop of read_string
RECURSIVE read_string_loop(_, _, _)
read_string_loop(L, quote_char, string_value) ==
    LET char == current_char(L)
        r == read_string_iteration(L, string_value)
    IN  IF char = NoChar \/ char = quote_char
        THEN [ok |-> TRUE, lexer |-> L, value |-> string_value]
        ELSE IF r.ok THEN read_string_loop(r.lexer, quote_char, r.value)
        ELSE r

read_string(L) ==
    LET quote_char == current_char(L)
        r == read_string_loop(advance(L), quote_char, <<>>)
        closed == IF current_char(r.lexer) = quote_char THEN advance(r.lexer) ELSE r.lexer
    IN  IF r.ok
        THEN Scanned(closed, Token("STRING", r.value, closed.line, L.column))
        ELSE ScanError(r.lexer, ValueErrorAt("Invalid character in string", r.lexer.line))

\* the `while` loop of read_identifier
RECURSIVE read_identifier_loop(_, _)
read_identifier_loop(L, identifier) ==
    IF current_char(L) # NoChar /\ is_identifier_char(current_char(L))
    THEN read_identifier_loop(advance(L), Append(identifier, current_char(L)))
    ELSE [lexer |-> L, value |-> identifier]

read_identifier(L) ==
    LET r == read_identifier_loop(L, <<>>)
    IN  Scanned(r.lexer, Token(keywords(r.value), r.value, r.lexer.line, L.column))

\* a comment that ends after its `#`
skip_comment_hash(L) == advance(L)

\* `while self.current_char() and self.current_char() != '\n': self.advance()`
RECURSIVE skip_comment(_)
skip_comment(L) ==
    IF current_char(L) # NoChar /\ current_char(L) # 10 THEN skip_comment(advance(L)) ELSE L

\* a token of one or two characters at the current position
Punctuation(L, type, value, length) ==
    Scanned(IF length = 2 THEN advance(advance(L)) ELSE advance(L),
            Token(type, value, L.line, L.column))

\* the body of tokenize's main loop below skip_whitespace, at a character char:
\* token.type = "none" when the iteration appends no token (a comment)
scan(L) ==
    LET char == current_char(L)
        next_char == peek_char(L)
        two_char == IF next_char = NoChar THEN <<char>> ELSE <<char, next_char>>
    IN  IF char = 10 THEN Punctuation(L, "NEWLINE", <<char>>, 1)
        ELSE IF char = 35 THEN Scanned(skip_comment(L), Token("none", <<>>, 0, 0))
        ELSE IF IsDigit(char) THEN read_number(L)
        ELSE IF char \in {34, 39} THEN read_string(L)
        ELSE IF is_armenian_char(char) THEN read_identifier(L)
        ELSE IF char \in {61, 33, 60, 62} /\ two_chars(two_char) # "none"
        THEN Punctuation(L, two_chars(two_char), two_char, 2)
        ELSE IF single_chars(char) # "none" THEN Punctuation(L, single_chars(char), <<char>>, 1)
        ELSE IF char = 61 THEN Punctuation(L, "ASSIGN", <<char>>, 1)
        ELSE IF char = 60 THEN Punctuation(L, "LESS_THAN", <<char>>, 1)
        ELSE IF char = 62 THEN Punctuation(L, "GREATER_THAN", <<char>>, 1)
        ELSE ScanError(L, ValueErrorAt("Unknown character", L.line))

(***************************************************************************)
(* Parser (src/parser.py): the helpers that look at the token list, as     *)
(* operators of the list and Parser.current.  consume and what is built on *)
(* it give a result holding the node returned (or the exception raised)    *)
(* and Parser.current afterwards.  The parsing methods are actions,        *)
(* further down.                                                           *)
(***************************************************************************)
Parsed(node, cur) == [ok |-> TRUE, node |-> node, current |-> cur, exc |-> NoExc]
ParseError(e, cur) == [ok |-> FALSE, node |-> NoNode, current |-> cur, exc |-> e]

peek(toks, cur) == toks[cur + 1]
\* tokens[-1] is the last token
previous(toks, cur) == toks[IF cur = 0 THEN Len(toks) ELSE cur]
is_at_end(toks, cur) == peek(toks, cur).type = "EOF"
check(toks, cur, token_type) == ~is_at_end(toks, cur) /\ peek(toks, cur).type = token_type
\* match(*token_types) is true, and then advances by one token
match(toks, cur, token_types) == \E token_type \in token_types : check(toks, cur, token_type)

\* the token consumed, as the node of the result
consume(toks, cur, token_type, message) ==
    IF check(toks, cur, token_type) THEN Parsed(peek(toks, cur), cur + 1)
    ELSE ParseError(SyntaxErrorAt(message, peek(toks, cur).line), cur)

RECURSIVE skip_newlines(_, _)
skip_newlines(toks, cur) ==
    IF match(toks, cur, {"NEWLINE"}) THEN skip_newlines(toks, cur + 1) ELSE cur

\* skip_newlines, consume '{', skip_newlines: what precedes a block loop
block_open(toks, cur, message) ==
    LET open == consume(toks, skip_newlines(toks, cur), "LEFT_BRACE", message)
    IN  IF open.ok THEN Parsed(NoNode, skip_newlines(toks, open.current)) ELSE open

\* `while self.match(COMMA): parameters.append(self.consume(IDENTIFIER, ...).value)`
RECURSIVE parameters_loop(_, _, _)
parameters_loop(toks, cur, parameters) ==
    LET param_name == consume(toks, cur + 1, "IDENTIFIER", "Expected parameter name")
    IN  IF match(toks, cur, {"COMMA"})
        THEN IF ~param_name.ok THEN param_name
             ELSE parameters_loop(toks, param_name.current,
                                  Append(parameters, param_name.node.value))
        ELSE Parsed(parameters, cur)

\* function_declaration up to the ')' of its parameters: node holds name and parameters
signature(toks, cur) ==
    LET name == consume(toks, cur, "IDENTIFIER", "Expected function name")
        paren == consume(toks, name.current, "LEFT_PAREN", "Expected '(' after function name")
        param_name == consume(toks, paren.current, "IDENTIFIER", "Expected parameter name")
        parameters ==
            IF check(toks, paren.current, "RIGHT_PAREN") THEN Parsed(<<>>, paren.current)
            ELSE IF ~param_name.ok THEN param_name
            ELSE parameters_loop(toks, param_name.current, <<param_name.node.value>>)
        close == consume(toks, parameters.current, "RIGHT_PAREN",
                         "Expected ')' after parameters")
    IN  IF ~name.ok THEN name
        ELSE IF ~paren.ok THEN paren
        ELSE IF ~parameters.ok THEN parameters
        ELSE IF ~close.ok THEN close
        ELSE Parsed([name |-> name.node.value, parameters |-> parameters.node], close.current)

(***************************************************************************)
(* Results of the evaluator's pure steps: a value or an exception.         *)
(***************************************************************************)
Ok(value) == [ok |-> TRUE, value |-> value, exc |-> NoExc]
Err(e) == [ok |-> FALSE, value |-> Null, exc |-> e]

BothNumbers(left, right) == left.type_name = "number" /\ right.type_name = "number"

\* the `+` branch of Interpreter.evaluate_binary_op
binary_plus(left, right) ==
    IF BothNumbers(left, right)
    THEN Ok(SoorjValue(PyAdd(left.value, right.value), "number"))
    ELSE IF left.type_name = "string" \/ right.type_name = "string"
    THEN Ok(SoorjValue(PyStr(PyStrOf(left.value) \o PyStrOf(right.value)), "string"))
    ELSE Err(RuntimeError("Invalid operands for +"))

\* the `==` and `!=` branches of Interpreter.evaluate_binary_op
binary_equals(left, right) == Ok(SoorjValue(PyBool(PyEq(left.value, right.value)), "boolean"))
binary_not_equals(left, right) == Ok(SoorjValue(PyBool(~PyEq(left.value, right.value)), "boolean"))

\* Interpreter.evaluate_binary_op once both operands are evaluated
binary_op(operator, left, right) ==
    CASE operator = op_plus -> binary_plus(left, right)
      [] operator = op_minus ->
            IF BothNumbers(left, right)
            THEN Ok(SoorjValue(PySub(left.value, right.value), "number"))
            ELSE Err(RuntimeError("Invalid operands for -"))
      [] operator = op_multiply ->
            IF BothNumbers(left, right)
            THEN Ok(SoorjValue(PyMul(left.value, right.value), "number"))
            ELSE Err(RuntimeError("Invalid operands for *"))
      [] operator = op_divide ->
            IF BothNumbers(left, right)
            THEN IF right.value.n = 0 THEN Err(RuntimeError("Division by zero"))
                 ELSE Ok(SoorjValue(PyDiv(left.value, right.value), "number"))
            ELSE Err(RuntimeError("Invalid operands for /"))
      [] operator = op_modulo ->
            IF BothNumbers(left, right)
            THEN IF right.value.n = 0 THEN Err(ZeroDivisionError("modulo by zero"))
                 ELSE Ok(SoorjValue(PyMod(left.value, right.value), "number"))
            ELSE Err(RuntimeError("Invalid operands for %"))
      [] operator = op_equals -> binary_equals(left, right)
      [] operator = op_not_equals -> binary_not_equals(left, right)
      [] operator = op_less ->
            IF BothNumbers(left, right)
            THEN Ok(SoorjValue(PyBool(PyLess(left.value, right.value)), "boolean"))
            ELSE Err(RuntimeError("Invalid operands for <"))
      [] operator = op_greater ->
            IF BothNumbers(left, right)
            THEN Ok(SoorjValue(PyBool(PyLess(right.value, left.value)), "boolean"))
            ELSE Err(RuntimeError("Invalid operands for >"))
      [] operator = op_less_equal ->
            IF BothNumbers(left, right)
            THEN Ok(SoorjValue(PyBool(~PyLess(right.value, left.value)), "boolean"))
            ELSE Err(RuntimeError("Invalid operands for <="))
      [] operator = op_greater_equal ->
            IF BothNumbers(left, right)
            THEN Ok(SoorjValue(PyBool(~PyLess(left.value, right.value)), "boolean"))
            ELSE Err(RuntimeError("Invalid operands for >="))
      [] operator = kw_and ->
            Ok(SoorjValue(PyBool(is_truthy(left) /\ is_truthy(right)), "boolean"))
      [] operator = kw_or ->
            Ok(SoorjValue(PyBool(is_truthy(left) \/ is_truthy(right)), "boolean"))
      [] OTHER -> Err(RuntimeError("Unknown binary operator"))

\* Interpreter.evaluate_unary_op once the operand is evaluated
unary_op(operator, operand) ==
    CASE operator = op_minus ->
            IF operand.type_name = "number"
            THEN Ok(SoorjValue(PyNeg(operand.value), "number"))
            ELSE Err(RuntimeError("Invalid operand for unary -"))
      [] operator = kw_not -> Ok(SoorjValue(PyBool(~is_truthy(operand)), "boolean"))
      [] OTHER -> Err(RuntimeError("Unknown unary operator"))

(***************************************************************************)
(* The built-in functions.  A printed line is [prefix, e, text]: the text  *)
(* print() writes is prefix, then str(e) when e is an exception, then text.*)
(***************************************************************************)
Line(prefix, e, text) == [prefix |-> prefix, e |-> e, text |-> text]

RECURSIVE Join(_)
Join(args) ==
    IF Len(args) = 0 THEN <<>>
    ELSE IF Len(args) = 1 THEN SoorjValue_str(args[1])
    ELSE SoorjValue_str(args[1]) \o <<32>> \o Join(Tail(args))

\* a line of the first argument alone
builtin_gre_first(args) ==
    Line("", NoExc, IF Len(args) = 0 THEN <<>> ELSE SoorjValue_str(args[1]))

\* the line builtin_gre prints
builtin_gre_line(args) == Line("", NoExc, Join(args))

builtin_tiv(args) ==
    IF Len(args) # 1 THEN Err(RuntimeError("tiv expects exactly 1 argument"))
    ELSE LET arg == args[1]
         IN  IF arg.type_name = "number" THEN Ok(arg)
             ELSE IF arg.type_name = "string"
                  THEN IF float(arg.value.s).ok
                       THEN Ok(SoorjValue(float(arg.value.s).value, "number"))
                       ELSE Ok(SoorjValue(PyInt(0), "number"))
             ELSE IF arg.type_name = "boolean"
                  THEN Ok(SoorjValue(PyInt(IF arg.value.b THEN 1 ELSE 0), "number"))
             ELSE Ok(SoorjValue(PyInt(0), "number"))

builtin_bar(args) ==
    IF Len(args) # 1 THEN Err(RuntimeError("bar expects exactly 1 argument"))
    ELSE LET arg == args[1]
         IN  IF arg.type_name = "string" THEN Ok(arg)
             ELSE IF arg.type_name = "null" THEN Ok(SoorjValue(PyStr(<<>>), "string"))
             ELSE Ok(SoorjValue(PyStr(PyStrOf(arg.value)), "string"))

\* Interpreter.__init__ and setup_builtins: the root Environment
Builtin(name) == SoorjValue(PyObject(BuiltinFunction(name)), "function")
RootVariables ==
    DictSet(DictSet(DictSet(EmptyDict, name_gre, Builtin(name_gre)),
                    name_tiv, Builtin(name_tiv)),
            name_bar, Builtin(name_bar))
Root == 1
setup_builtins == <<[Environment(NoEnv) EXCEPT !.variables = RootVariables]>>

(***************************************************************************)
(* The Python call stack.  A frame is one activation of                    *)
(*   run_source | repl | tokenize | interpret | execute | evaluate |       *)
(*   SoorjFunction.call                                                    *)
(* or of a method of Parser (ParserFrames).  node is the AST node or       *)
(* function object it works on, pc its position in the function's code,    *)
(* block and i the statement list it iterates and the index of the next    *)
(* statement, vals its evaluated locals, prev_env the local of             *)
(* SoorjFunction.call.                                                     *)
(***************************************************************************)
Frame(fn, node, pc) ==
    [fn |-> fn, node |-> node, pc |-> pc, i |-> 1, vals |-> <<>>,
     block |-> <<>>, prev_env |-> NoEnv]

\* what a Python function returning None returns
NoValue == SoorjValue(PyNone, "None")

Top == stack[Len(stack)]
Below == SubSeq(stack, 1, Len(stack) - 1)
On(fn) == Len(stack) > 0 /\ Top.fn = fn
Running(fn, kinds) == On(fn) /\ ctl \in {"run", "return"} /\ Top.node.k \in kinds

\* the top frame calls `callee` and continues as `top` when it returns
Push(top, callee) ==
    /\ Len(stack) < MaxStack
    /\ stack' = Append(Append(Below, top), callee)
    /\ ctl' = "run"
    /\ val' = NoValue
    /\ exc' = NoExc

\* the top frame goes on as `top`
Goto(top) ==
    /\ stack' = Append(Below, top)
    /\ ctl' = "run"
    /\ val' = NoValue
    /\ exc' = NoExc

\* the top frame returns v to its caller
Return(v) ==
    /\ stack' = Below
    /\ ctl' = "return"
    /\ val' = v
    /\ exc' = NoExc

\* the top frame ends with exception e
Raise(e) ==
    /\ stack' = Below
    /\ ctl' = "raise"
    /\ val' = NoValue
    /\ exc' = e

Finish(r) == IF r.ok THEN Return(r.value) ELSE Raise(r.exc)

\* `for stmt in block: self.execute(stmt)`: the next statement, if any
MoreStatements(top) == top.i <= Len(top.block)
ExecuteNext(top) == Push([top EXCEPT !.i = @ + 1], Frame("execute", top.block[top.i], 0))

\* the methods of Parser that call others
ParserFrames ==
    {"parse", "statement", "if_statement", "while_statement", "return_statement",
     "function_declaration", "expression_statement", "expression", "assignment",
     "logical_or", "logical_and", "equality", "comparison", "term", "factor", "unary",
     "call", "finish_call", "primary"}

\* an exception passes through a frame that has no handler for it
Propagate ==
    /\ ctl = "raise"
    /\ Len(stack) > 0
    /\ Top.fn \in {"execute", "evaluate"} \cup ParserFrames
    /\ stack' = Below
    /\ UNCHANGED <<ctl, val, exc, envs, environment, out, lexvars, parsevars>>

(***************************************************************************)
(* Interpreter.execute                                                     *)
(***************************************************************************)
execute_ExpressionStatement ==
    /\ Running("execute", {"ExpressionStatement"})
    /\ IF ctl = "run"
       THEN Push([Top EXCEPT !.pc = 1], Frame("evaluate", Top.node.expression, 0))
       ELSE Return(val)
    /\ UNCHANGED <<envs, environment, out, lexvars, parsevars>>

\* the branch an if statement runs for condition value c
IfBranch(node, c) ==
    IF is_truthy(c) THEN node.then_branch
    ELSE IF ListTruthy(node.else_branch) THEN node.else_branch.list
    ELSE <<>>

execute_IfStatement ==
    /\ Running("execute", {"IfStatement"})
    /\ CASE Top.pc = 0 -> Push([Top EXCEPT !.pc = 1], Frame("evaluate", Top.node.condition, 0))
         [] Top.pc = 1 -> Goto([Top EXCEPT !.pc = 2, !.block = IfBranch(Top.node, val), !.i = 1])
         [] OTHER -> IF MoreStatements(Top) THEN ExecuteNext(Top) ELSE Return(NoValue)
    /\ UNCHANGED <<envs, environment, out, lexvars, parsevars>>

execute_WhileStatement ==
    /\ Running("execute", {"WhileStatement"})
    /\ CASE Top.pc = 0 -> Push([Top EXCEPT !.pc = 1], Frame("evaluate", Top.node.condition, 0))
         [] Top.pc = 1 ->
                IF ~is_truthy(val) THEN Return(NoValue)
                ELSE Goto([Top EXCEPT !.pc = 2, !.block = Top.node.body, !.i = 1])
         [] OTHER -> IF MoreStatements(Top) THEN ExecuteNext(Top) ELSE Goto([Top EXCEPT !.pc = 0])
    /\ UNCHANGED <<envs, environment, out, lexvars, parsevars>>

execute_ReturnStatement ==
    /\ Running("execute", {"ReturnStatement"})
    /\ IF Top.pc = 0
       THEN IF Top.node.value.k # "None"
            THEN Push([Top EXCEPT !.pc = 1], Frame("evaluate", Top.node.value, 0))
            ELSE Raise(ReturnValue(Null))
       ELSE Raise(ReturnValue(val))
    /\ UNCHANGED <<envs, environment, out, lexvars, parsevars>>

execute_FunctionDeclaration ==
    /\ Running("execute", {"FunctionDeclaration"})
    /\ envs' = define(envs, environment, Top.node.name,
                      SoorjValue(PyObject(SoorjFunction(Top.node.name, Top.node.parameters,
                                                        Top.node.body)), "function"))
    /\ Return(NoValue)
    /\ UNCHANGED <<environment, out, lexvars, parsevars>>

(***************************************************************************)
(* Interpreter.evaluate                                                    *)
(***************************************************************************)
LiteralValue(node) ==
    CASE node.k = "NumberLiteral" -> SoorjValue(node.value, "number")
      [] node.k = "StringLiteral" -> SoorjValue(PyStr(node.value), "string")
      [] node.k = "BooleanLiteral" -> SoorjValue(PyBool(node.value), "boolean")
      [] OTHER -> SoorjValue(PyNone, "null")

evaluate_literal ==
    /\ Running("evaluate", {"NumberLiteral", "StringLiteral", "BooleanLiteral", "NullLiteral"})
    /\ Return(LiteralValue(Top.node))
    /\ UNCHANGED <<envs, environment, out, lexvars, parsevars>>

Undefined == RuntimeError("Undefined variable")

evaluate_Identifier ==
    /\ Running("evaluate", {"Identifier"})
    /\ LET r == get(envs, environment, Top.node.name)
       IN  IF r.ok THEN Return(r.value) ELSE Raise(Undefined)
    /\ UNCHANGED <<envs, environment, out, lexvars, parsevars>>

\* the try/except of the Assignment branch: assign, or define when assign raises
\* a mutation of assign_or_define: the assignment always binds in the current environment
assign_or_define_local(E, e, name, value) == define(E, e, name, value)

assign_or_define(E, e, name, value) ==
    LET r == assign(E, e, name, value)
    IN  IF r.ok THEN r.envs ELSE define(E, e, name, value)

evaluate_Assignment ==
    /\ Running("evaluate", {"Assignment"})
    /\ IF ctl = "run"
       THEN /\ Push([Top EXCEPT !.pc = 1], Frame("evaluate", Top.node.value, 0))
            /\ envs' = envs
       ELSE /\ envs' = assign_or_define(envs, environment, Top.node.target, val)
            /\ Return(val)
    /\ UNCHANGED <<environment, out, lexvars, parsevars>>

evaluate_binary_op ==
    /\ Running("evaluate", {"BinaryOp"})
    /\ CASE Top.pc = 0 -> Push([Top EXCEPT !.pc = 1], Frame("evaluate", Top.node.left, 0))
         [] Top.pc = 1 -> Push([Top EXCEPT !.pc = 2, !.vals = <<val>>],
                               Frame("evaluate", Top.node.right, 0))
         [] OTHER -> Finish(binary_op(Top.node.operator, Top.vals[1], val))
    /\ UNCHANGED <<envs, environment, out, lexvars, parsevars>>

evaluate_unary_op ==
    /\ Running("evaluate", {"UnaryOp"})
    /\ IF ctl = "run"
       THEN Push([Top EXCEPT !.pc = 1], Frame("evaluate", Top.node.operand, 0))
       ELSE Finish(unary_op(Top.node.operator, val))
    /\ UNCHANGED <<envs, environment, out, lexvars, parsevars>>

\* pc 0: look the callee up; pc 1: evaluate the arguments, vals = <<function_value>> \o args;
\* pc 2: func.call(self, args) (the two call actions below); pc 3: return its result
\* the arguments taken from the last to the first
argument_reversed(node, i) == node.arguments[Len(node.arguments) + 1 - i]
\* the i-th argument `[self.evaluate(arg) for arg in node.arguments]` evaluates
argument(node, i) == node.arguments[i]

evaluate_function_call ==
    /\ Running("evaluate", {"FunctionCall"})
    /\ Top.pc # 2
    /\ CASE Top.pc = 0 ->
                LET r == get(envs, environment, Top.node.name)
                IN  IF ~r.ok THEN Raise(Undefined)
                    ELSE IF r.value.type_name # "function"
                         THEN Raise(RuntimeError("is not a function"))
                    ELSE Goto([Top EXCEPT !.pc = 1, !.vals = <<r.value>>, !.i = 1])
         [] Top.pc = 1 ->
                LET got == IF ctl = "return" THEN Append(Top.vals, val) ELSE Top.vals
                IN  IF Top.i <= Len(Top.node.arguments)
                    THEN Push([Top EXCEPT !.i = @ + 1, !.vals = got],
                              Frame("evaluate", argument(Top.node, Top.i), 0))
                    ELSE Goto([Top EXCEPT !.pc = 2, !.vals = got])
         [] OTHER -> Return(val)
    /\ UNCHANGED <<envs, environment, out, lexvars, parsevars>>

Calling(kind) ==
    /\ On("evaluate")
    /\ ctl = "run"
    /\ Top.node.k = "FunctionCall"
    /\ Top.pc = 2
    /\ Top.vals[1].value.obj.k = kind

BuiltinFunction_call ==
    /\ Calling("BuiltinFunction")
    /\ LET func == Top.vals[1].value.obj
           args == Tail(Top.vals)
       IN  CASE func.name = name_gre ->
                    /\ out' = Append(out, builtin_gre_line(args))
                    /\ Return(Null)
             [] func.name = name_tiv -> out' = out /\ Finish(builtin_tiv(args))
             [] OTHER -> out' = out /\ Finish(builtin_bar(args))
    /\ UNCHANGED <<envs, environment, lexvars, parsevars>>

(***************************************************************************)
(* SoorjFunction.call                                                      *)
(***************************************************************************)
\* the Environment of a call made while prev_env is current
\* a mutation of call_environment: the call's environment is a child of the root
call_environment_root(prev_env) == Environment(Root)

call_environment(prev_env) == Environment(prev_env)

\* `for param, arg in zip(parameters, arguments): define(param, arg)`
RECURSIVE bind(_, _, _)
bind(env, parameters, arguments) ==
    IF Len(parameters) = 0 \/ Len(arguments) = 0 THEN env
    ELSE bind([env EXCEPT !.variables = DictSet(@, parameters[1], arguments[1])],
              Tail(parameters), Tail(arguments))

\* the environment the `finally` clause makes current
\* a mutation of finally_environment: the call's environment stays current
finally_environment_kept(prev_env) == environment

finally_environment(prev_env) == prev_env

\* the result of a call whose body raised the return-signal e
\* a mutation of except_ReturnValue: the carried value is dropped
except_ReturnValue_null(e) == Null

except_ReturnValue(e) == e.value

\* a call that lacks arguments passes the check
arity_differs_above(func, arguments) == Len(arguments) > Len(func.parameters)
\* `len(arguments) != len(self.parameters)`
arity_differs(func, arguments) == Len(arguments) # Len(func.parameters)

SoorjFunction_call ==
    /\ Calling("SoorjFunction")
    /\ LET func == Top.vals[1].value.obj
           args == Tail(Top.vals)
       IN  IF arity_differs(func, args)
           THEN /\ Raise(RuntimeError("arity"))
                /\ UNCHANGED <<envs, environment>>
           ELSE /\ envs' = Append(envs, bind(call_environment(environment),
                                             func.parameters, args))
                /\ environment' = Len(envs) + 1
                /\ Push([Top EXCEPT !.pc = 3],
                        [Frame("SoorjFunction.call", func, 0) EXCEPT !.block = func.body,
                                                       !.prev_env = environment])
    /\ UNCHANGED <<out, lexvars, parsevars>>

\* the body loop of SoorjFunction.call and its normal exit
SoorjFunction_body ==
    /\ On("SoorjFunction.call")
    /\ ctl \in {"run", "return"}
    /\ IF MoreStatements(Top)
       THEN ExecuteNext(Top) /\ environment' = environment
       ELSE Return(Null) /\ environment' = finally_environment(Top.prev_env)
    /\ UNCHANGED <<envs, out, lexvars, parsevars>>

\* `except ReturnValue` and `finally` of SoorjFunction.call
SoorjFunction_except ==
    /\ On("SoorjFunction.call")
    /\ ctl = "raise"
    /\ environment' = finally_environment(Top.prev_env)
    /\ IF exc.type = "ReturnValue" THEN Return(except_ReturnValue(exc)) ELSE Raise(exc)
    /\ UNCHANGED <<envs, out, lexvars, parsevars>>

(***************************************************************************)
(* Interpreter.interpret                                                   *)
(***************************************************************************)
interpret ==
    /\ On("interpret")
    /\ ctl \in {"run", "return"}
    /\ IF MoreStatements(Top) THEN ExecuteNext(Top) ELSE Return(NoValue)
    /\ UNCHANGED <<envs, environment, out, lexvars, parsevars>>

\* `except RuntimeError as e: print(f"Runtime error: {e}")`; any other exception passes
interpret_except ==
    /\ On("interpret")
    /\ ctl = "raise"
    /\ IF IsRuntimeError(exc)
       THEN /\ out' = Append(out, Line("Runtime error: ", exc, <<>>))
            /\ Return(NoValue)
       ELSE /\ out' = out
            /\ Raise(exc)
    /\ UNCHANGED <<envs, environment, lexvars, parsevars>>

(***************************************************************************)
(* Lexer.tokenize: one iteration of its main loop, or the code after it.   *)
(* tokenize returns the list self.tokens, which the model keeps in the     *)
(* variable `tokens`: it is the list the Parser is constructed with.       *)
(***************************************************************************)
\* `Token(TokenType.EOF, '', self.line, self.column)`
EOF_token_newline(L) == Token("NEWLINE", <<>>, L.line, L.column)
EOF_token(L) == Token("EOF", <<>>, L.line, L.column)

tokenize ==
    /\ On("tokenize")
    /\ ctl = "run"
    /\ LET L == skip_whitespace([source |-> source, position |-> position,
                                line |-> line, column |-> column])
           scanned == scan(L)
           after == IF position < Len(source) /\ current_char(L) # NoChar
                    THEN scanned.lexer ELSE L
       IN  /\ position' = after.position
           /\ line' = after.line
           /\ column' = after.column
           /\ IF position < Len(source) /\ current_char(L) # NoChar
              THEN IF scanned.ok
                   THEN /\ tokens' = IF scanned.token.type = "none" THEN tokens
                                     ELSE Append(tokens, scanned.token)
                        /\ UNCHANGED <<stack, ctl, val, exc>>
                   ELSE /\ tokens' = tokens
                        /\ Raise(scanned.exc)
              ELSE /\ tokens' = Append(tokens, EOF_token(L))
                   /\ Return(NoValue)
    /\ UNCHANGED <<envs, environment, out, source, current, statements>>

(***************************************************************************)
(* Parser.parse and the parsing methods, each a frame.  Parser.current is  *)
(* the variable `current`.  A parse frame appends to `statements`; an      *)
(* if_statement, while_statement or function_declaration frame appends to  *)
(* its field block, and keeps in vals what it parsed before the block; the *)
(* other frames keep their local expr (or callee) in node and their other  *)
(* locals in vals.                                                         *)
(***************************************************************************)
\* `stmt = self.statement(); if stmt: list.append(stmt)`: the list after the call returned
Appended(list) == IF ctl = "return" /\ val.k # "None" THEN Append(list, val) ELSE list

\* the result r of consume (or of what is built on it) ends the top frame
FinishParsed(r) ==
    /\ current' = r.current
    /\ IF r.ok THEN Return(r.node) ELSE Raise(r.exc)

\* a loop calls statement; i of the new frame records Parser.current at the start of
\* the loop's iteration (an auxiliary value: statement does not read it)
CallStatement(top, start) == Push(top, [Frame("statement", NoNode, 0) EXCEPT !.i = start])

\* `self.<fn>()`: the top frame goes on as `top` when it returns
CallMethod(top, fn) == Push(top, Frame(fn, NoNode, 0))

\* the loop of parse, from its test on, and `return Program(statements)`
parse ==
    /\ On("parse")
    /\ ctl \in {"run", "return"}
    /\ statements' = Appended(statements)
    /\ IF ~is_at_end(tokens, current)
       THEN /\ current' = skip_newlines(tokens, current)
            /\ IF ~is_at_end(tokens, skip_newlines(tokens, current))
               THEN CallStatement(Top, current)
               ELSE Goto(Top)
       ELSE /\ current' = current
            /\ Return(Program(Appended(statements)))
    /\ UNCHANGED <<envs, environment, out, lexvars, tokens>>

\* pc 0: at its start; 1: `return self.<method>()`, the method returned
statement ==
    /\ On("statement")
    /\ ctl \in {"run", "return"}
    /\ LET start == skip_newlines(tokens, current)
           Matched(fn) == /\ current' = start + 1
                          /\ CallMethod([Top EXCEPT !.pc = 1], fn)
       IN  IF Top.pc = 1 THEN current' = current /\ Return(val)
           ELSE IF match(tokens, start, {"IF"}) THEN Matched("if_statement")
           ELSE IF match(tokens, start, {"WHILE"}) THEN Matched("while_statement")
           ELSE IF match(tokens, start, {"RETURN"}) THEN Matched("return_statement")
           ELSE IF match(tokens, start, {"FUNCTION"}) THEN Matched("function_declaration")
           ELSE IF check(tokens, start, "RIGHT_BRACE") \/ check(tokens, start, "EOF")
           THEN FinishParsed(Parsed(NoNode, start))
           ELSE /\ current' = start
                /\ CallMethod([Top EXCEPT !.pc = 1], "expression_statement")
    /\ UNCHANGED <<envs, environment, out, lexvars, tokens, statements>>

\* skip_newlines, consume '{', skip_newlines, and on to the block loop; locals are kept in vals
OpenBlock(before, message, locals) ==
    LET open == block_open(tokens, before.current, message)
    IN  IF ~before.ok THEN FinishParsed(before)
        ELSE IF ~open.ok THEN FinishParsed(open)
        ELSE /\ current' = open.current
             /\ Goto([Top EXCEPT !.pc = @ + 1, !.vals = locals, !.block = <<>>])

\* `while not self.check(RIGHT_BRACE) and not self.is_at_end()`
InBlock == ~check(tokens, current, "RIGHT_BRACE") /\ ~is_at_end(tokens, current)

\* pc 0: at its start; 1: the condition returned, '{'; 2: the loop of then_branch, '}' and
\* else; 3: the loop of else_branch and '}'
if_statement ==
    /\ On("if_statement")
    /\ ctl \in {"run", "return"}
    /\ LET list == Appended(Top.block)
           close == consume(tokens, current, "RIGHT_BRACE",
                            IF Top.pc = 2 THEN "Expected '}' after if body"
                            ELSE "Expected '}' after else body")
       IN  IF Top.pc = 0
           THEN current' = current /\ CallMethod([Top EXCEPT !.pc = 1], "expression")
           ELSE IF Top.pc = 1
           THEN OpenBlock(Parsed(val, current), "Expected '{' after if condition", <<val>>)
           ELSE IF InBlock
           THEN current' = current /\ CallStatement([Top EXCEPT !.block = list], current)
           ELSE IF ~close.ok THEN FinishParsed(close)
           ELSE IF Top.pc = 2
           THEN IF match(tokens, close.current, {"ELSE"})
                THEN OpenBlock(Parsed(NoNode, close.current + 1), "Expected '{' after else",
                               <<Top.vals[1], list>>)
                ELSE FinishParsed(Parsed(IfStatement(Top.vals[1], list, NoBlock),
                                         close.current))
           ELSE FinishParsed(Parsed(IfStatement(Top.vals[1], Top.vals[2], SomeBlock(list)),
                                    close.current))
    /\ UNCHANGED <<envs, environment, out, lexvars, tokens, statements>>

\* pc 0: at its start; 1: the condition returned, '{'; 2: the loop of body and '}'
while_statement ==
    /\ On("while_statement")
    /\ ctl \in {"run", "return"}
    /\ LET list == Appended(Top.block)
           close == consume(tokens, current, "RIGHT_BRACE", "Expected '}' after while body")
       IN  IF Top.pc = 0
           THEN current' = current /\ CallMethod([Top EXCEPT !.pc = 1], "expression")
           ELSE IF Top.pc = 1
           THEN OpenBlock(Parsed(val, current), "Expected '{' after while condition", <<val>>)
           ELSE IF InBlock
           THEN current' = current /\ CallStatement([Top EXCEPT !.block = list], current)
           ELSE IF ~close.ok THEN FinishParsed(close)
           ELSE FinishParsed(Parsed(WhileStatement(Top.vals[1], list), close.current))
    /\ UNCHANGED <<envs, environment, out, lexvars, tokens, statements>>

\* pc 0: at its start; 1: the expression returned
return_statement ==
    /\ On("return_statement")
    /\ ctl \in {"run", "return"}
    /\ current' = current
    /\ IF Top.pc = 1 THEN Return(ReturnStatement(val))
       ELSE IF ~check(tokens, current, "NEWLINE") /\ ~is_at_end(tokens, current)
       THEN CallMethod([Top EXCEPT !.pc = 1], "expression")
       ELSE Return(ReturnStatement(NoNode))
    /\ UNCHANGED <<envs, environment, out, lexvars, tokens, statements>>

\* pc 0: the name, the parameters and '{'; pc 1: the loop of body and '}'
function_declaration ==
    /\ On("function_declaration")
    /\ ctl \in {"run", "return"}
    /\ LET declared == signature(tokens, current)
           list == Appended(Top.block)
           close == consume(tokens, current, "RIGHT_BRACE", "Expected '}' after function body")
       IN  IF Top.pc = 0
           THEN OpenBlock(declared, "Expected '{' before function body", <<declared.node>>)
           ELSE IF InBlock
           THEN current' = current /\ CallStatement([Top EXCEPT !.block = list], current)
           ELSE IF ~close.ok THEN FinishParsed(close)
           ELSE FinishParsed(Parsed(FunctionDeclaration(Top.vals[1].name,
                                                        Top.vals[1].parameters, list),
                                    close.current))
    /\ UNCHANGED <<envs, environment, out, lexvars, tokens, statements>>

\* pc 0: at its start; 1: the expression returned
expression_statement ==
    /\ On("expression_statement")
    /\ ctl \in {"run", "return"}
    /\ current' = current
    /\ IF Top.pc = 0 THEN CallMethod([Top EXCEPT !.pc = 1], "expression")
       ELSE Return(ExpressionStatement(val))
    /\ UNCHANGED <<envs, environment, out, lexvars, tokens, statements>>

\* `return self.assignment()`
expression ==
    /\ On("expression")
    /\ ctl \in {"run", "return"}
    /\ current' = current
    /\ IF Top.pc = 0 THEN CallMethod([Top EXCEPT !.pc = 1], "assignment")
       ELSE Return(val)
    /\ UNCHANGED <<envs, environment, out, lexvars, tokens, statements>>

\* pc 0: at its start; 1: logical_or returned expr; 2: assignment returned value
assignment ==
    /\ On("assignment")
    /\ ctl \in {"run", "return"}
    /\ IF Top.pc = 0
       THEN current' = current /\ CallMethod([Top EXCEPT !.pc = 1], "logical_or")
       ELSE IF Top.pc = 1
       THEN IF match(tokens, current, {"ASSIGN"})
            THEN /\ current' = current + 1
                 /\ CallMethod([Top EXCEPT !.pc = 2, !.node = val], "assignment")
            ELSE current' = current /\ Return(val)
       ELSE /\ current' = current
            /\ IF Top.node.k = "Identifier" THEN Return(Assignment(Top.node.name, val))
               ELSE Raise(SyntaxError("Invalid assignment target"))
    /\ UNCHANGED <<envs, environment, out, lexvars, tokens, statements>>

\* the body the six methods of binary operators share: `expr = self.<next>()`, then
\* `while self.match(*operators): operator = self.previous().value;
\*  right = self.<next>(); expr = BinaryOp(expr, operator, right)`, then `return expr`.
\* pc 0: at its start; 1: the first operand returned; 2: a right operand returned
BinaryMethod(operators, next) ==
    /\ ctl \in {"run", "return"}
    /\ LET expr == IF Top.pc = 1 THEN val ELSE BinaryOp(Top.node, Top.vals[1], val)
           operator == previous(tokens, current + 1).value
       IN  IF Top.pc = 0
           THEN current' = current /\ CallMethod([Top EXCEPT !.pc = 1], next)
           ELSE IF match(tokens, current, operators)
           THEN /\ current' = current + 1
                /\ CallMethod([Top EXCEPT !.pc = 2, !.node = expr, !.vals = <<operator>>],
                              next)
           ELSE current' = current /\ Return(expr)
    /\ UNCHANGED <<envs, environment, out, lexvars, tokens, statements>>

logical_or ==
    /\ On("logical_or")
    /\ BinaryMethod({"OR"}, "logical_and")

logical_and ==
    /\ On("logical_and")
    /\ BinaryMethod({"AND"}, "equality")

equality ==
    /\ On("equality")
    /\ BinaryMethod({"EQUALS", "NOT_EQUALS"}, "comparison")

comparison ==
    /\ On("comparison")
    /\ BinaryMethod({"GREATER_THAN", "GREATER_EQUAL", "LESS_THAN", "LESS_EQUAL"}, "term")

term ==
    /\ On("term")
    /\ BinaryMethod({"PLUS", "MINUS"}, "factor")

factor ==
    /\ On("factor")
    /\ BinaryMethod({"MULTIPLY", "DIVIDE", "MODULO"}, "unary")

\* pc 0: at its start; 1: the operand of the operator (in vals) returned; 2: call returned
unary ==
    /\ On("unary")
    /\ ctl \in {"run", "return"}
    /\ IF Top.pc = 0
       THEN IF match(tokens, current, {"NOT", "MINUS"})
            THEN /\ current' = current + 1
                 /\ CallMethod([Top EXCEPT !.pc = 1,
                                           !.vals = <<previous(tokens, current + 1).value>>],
                               "unary")
            ELSE current' = current /\ CallMethod([Top EXCEPT !.pc = 2], "call")
       ELSE /\ current' = current
            /\ Return(IF Top.pc = 1 THEN UnaryOp(Top.vals[1], val) ELSE val)
    /\ UNCHANGED <<envs, environment, out, lexvars, tokens, statements>>

\* pc 0: at its start; 1: primary or finish_call returned expr, and the loop
\* `while True: if self.match(LEFT_PAREN): expr = self.finish_call(expr) else: break`
call ==
    /\ On("call")
    /\ ctl \in {"run", "return"}
    /\ IF Top.pc = 0
       THEN current' = current /\ CallMethod([Top EXCEPT !.pc = 1], "primary")
       ELSE IF match(tokens, current, {"LEFT_PAREN"})
       THEN current' = current + 1 /\ Push(Top, Frame("finish_call", val, 0))
       ELSE current' = current /\ Return(val)
    /\ UNCHANGED <<envs, environment, out, lexvars, tokens, statements>>

\* node is callee, vals the arguments.  pc 0: at its start; 1: an argument returned
finish_call ==
    /\ On("finish_call")
    /\ ctl \in {"run", "return"}
    /\ LET arguments == IF Top.pc = 0 THEN <<>> ELSE Append(Top.vals, val)
           close == consume(tokens, current, "RIGHT_PAREN", "Expected ')' after arguments")
       IN  IF Top.pc = 0 /\ ~check(tokens, current, "RIGHT_PAREN")
           THEN current' = current /\ CallMethod([Top EXCEPT !.pc = 1], "expression")
           ELSE IF Top.pc = 1 /\ match(tokens, current, {"COMMA"})
           THEN /\ current' = current + 1
                /\ CallMethod([Top EXCEPT !.vals = arguments], "expression")
           ELSE IF ~close.ok THEN FinishParsed(close)
           ELSE /\ current' = close.current
                /\ IF Top.node.k = "Identifier"
                   THEN Return(FunctionCall(Top.node.name, arguments))
                   ELSE Raise(SyntaxError("Invalid function call"))
    /\ UNCHANGED <<envs, environment, out, lexvars, tokens, statements>>

\* pc 0: at its start; 1: the expression in parentheses returned
primary ==
    /\ On("primary")
    /\ ctl \in {"run", "return"}
    /\ LET token == peek(tokens, current)
           number == float(token.value)
           close == consume(tokens, current, "RIGHT_PAREN", "Expected ')' after expression")
           Matched(node) == current' = current + 1 /\ Return(node)
       IN  IF Top.pc = 1
           THEN IF close.ok THEN current' = close.current /\ Return(val)
                ELSE FinishParsed(close)
           ELSE IF match(tokens, current, {"TRUE"}) THEN Matched(BooleanLiteral(TRUE))
           ELSE IF match(tokens, current, {"FALSE"}) THEN Matched(BooleanLiteral(FALSE))
           ELSE IF match(tokens, current, {"NULL"}) THEN Matched(NullLiteral)
           ELSE IF match(tokens, current, {"NUMBER"})
           THEN /\ current' = current + 1
                /\ IF number.ok THEN Return(NumberLiteral(number.value))
                   ELSE Raise(ValueError("could not convert string to float"))
           ELSE IF match(tokens, current, {"STRING"}) THEN Matched(StringLiteral(token.value))
           ELSE IF match(tokens, current, {"IDENTIFIER"}) THEN Matched(Identifier(token.value))
           ELSE IF match(tokens, current, {"LEFT_PAREN"})
           THEN current' = current + 1 /\ CallMethod([Top EXCEPT !.pc = 1], "expression")
           ELSE current' = current /\ Raise(SyntaxErrorAt("Unexpected token", token.line))
    /\ UNCHANGED <<envs, environment, out, lexvars, tokens, statements>>

(***************************************************************************)
(* run_source (src/soorj.py).  pc 0: at its start; 1: tokenize called;     *)
(* 2: parse called; 3: interpret called.                                   *)
(***************************************************************************)
\* `lexer = Lexer(source); tokens = lexer.tokenize()`
run_source_tokenize ==
    /\ On("run_source")
    /\ ctl = "run"
    /\ Top.pc = 0
    /\ position' = Lexer(source).position
    /\ line' = Lexer(source).line
    /\ column' = Lexer(source).column
    /\ tokens' = <<>>
    /\ Push([Top EXCEPT !.pc = 1], Frame("tokenize", NoNode, 0))
    /\ UNCHANGED <<envs, environment, out, source, current, statements>>

\* `parser = Parser(tokens); ast = parser.parse()`
run_source_parse ==
    /\ On("run_source")
    /\ ctl = "return"
    /\ Top.pc = 1
    /\ current' = 0
    /\ statements' = <<>>
    /\ Push([Top EXCEPT !.pc = 2], Frame("parse", NoNode, 0))
    /\ UNCHANGED <<envs, environment, out, lexvars, tokens>>

\* `interpreter = Interpreter(); interpreter.interpret(ast)`: val is the ast parse returned
run_source_interpret ==
    /\ On("run_source")
    /\ ctl = "return"
    /\ Top.pc = 2
    /\ envs' = setup_builtins
    /\ environment' = Root
    /\ Push([Top EXCEPT !.pc = 3, !.node = val],
            [Frame("interpret", val, 0) EXCEPT !.block = val.statements])
    /\ UNCHANGED <<out, lexvars, parsevars>>

run_source_return ==
    /\ On("run_source")
    /\ ctl = "return"
    /\ Top.pc = 3
    /\ stack' = <<>>
    /\ ctl' = "halt"
    /\ val' = NoValue
    /\ UNCHANGED <<exc, envs, environment, out, lexvars, parsevars>>

\* `except Exception as e: print(f"Error: {e}")`
run_source_except ==
    /\ On("run_source")
    /\ ctl = "raise"
    /\ out' = Append(out, Line("Error: ", exc, <<>>))
    /\ stack' = <<>>
    /\ ctl' = "halt"
    /\ exc' = NoExc
    /\ UNCHANGED <<val, envs, environment, lexvars, parsevars>>

(***************************************************************************)
(* repl (src/soorj.py), from its first prompt on: node.inputs are the      *)
(* inputs still to be read, each as the Program the parser built from it;  *)
(* block the statements of the input being executed.  pc 0: read an input; *)
(* pc 1: the statement loop.                                               *)
(***************************************************************************)
Inputs(inputs) == [k |-> "Inputs", inputs |-> inputs]

repl_input ==
    /\ On("repl")
    /\ ctl = "run"
    /\ Top.pc = 0
    /\ IF Len(Top.node.inputs) > 0
       THEN Goto([Top EXCEPT !.node = Inputs(Tail(Top.node.inputs)),
                             !.block = Head(Top.node.inputs).statements,
                             !.i = 1, !.pc = 1])
       ELSE /\ stack' = <<>>
            /\ ctl' = "halt"
            /\ UNCHANGED <<val, exc>>
    /\ UNCHANGED <<envs, environment, out, lexvars, parsevars>>

\* `print(result)` for an input that is one expression statement
repl_prints(top) ==
    /\ ctl = "return"
    /\ val.type_name # "None"
    /\ top.block[top.i - 1].k = "ExpressionStatement"
    /\ Len(top.block) = 1

repl_execute ==
    /\ On("repl")
    /\ ctl \in {"run", "return"}
    /\ Top.pc = 1
    /\ out' = IF repl_prints(Top) THEN Append(out, Line("", NoExc, SoorjValue_str(val))) ELSE out
    /\ IF MoreStatements(Top) THEN ExecuteNext(Top) ELSE Goto([Top EXCEPT !.pc = 0])
    /\ UNCHANGED <<envs, environment, lexvars, parsevars>>

\* `except Exception as e: print(f"Error: {e}"); continue`
repl_except ==
    /\ On("repl")
    /\ ctl = "raise"
    /\ out' = Append(out, Line("Error: ", exc, <<>>))
    /\ Goto([Top EXCEPT !.pc = 0])
    /\ UNCHANGED <<envs, environment, lexvars, parsevars>>

(***************************************************************************)
(* Programs: ASTs as Parser.parse builds them, the inputs of the evaluator. *)
(***************************************************************************)
id_a == <<1377>>
id_b == <<1378>>
id_g == <<1379>>
id_f == <<1414>>
id_r == <<1408>>
id_s == <<1405>>
id_t == <<1407>>
id_z == <<1382>>
\* assigned only by statements that follow a return statement in a function body
id_d == <<1380>>

Expr(e) == ExpressionStatement(e)
Num(n) == NumberLiteral(PyFloat(n, 1))
Str(s) == StringLiteral(s)
Var(x) == Identifier(x)
Set(x, e) == Expr(Assignment(x, e))
Call(f, args) == FunctionCall(f, args)
Write(e) == Expr(Call(name_gre, <<e>>))
If(c, then_branch) == IfStatement(c, then_branch, NoBlock)
IfElse(c, then_branch, else_branch) == IfStatement(c, then_branch, SomeBlock(else_branch))
While(c, body) == WhileStatement(c, body)
Ret(e) == ReturnStatement(e)
RetNone == ReturnStatement(NoNode)
Fun(name, parameters, body) == FunctionDeclaration(name, parameters, body)
True == BooleanLiteral(TRUE)
False == BooleanLiteral(FALSE)

Literals ==
    {NullLiteral, True, False, Str(<<>>), Str(id_a), Str(<<49>>)}
        \cup {Num(n) : n \in 0..MaxLit}

\* operands: every tag of value, an undefined name, and two with a side effect
Atoms ==
    Literals \cup {Var(name_gre), Var(id_z), Call(name_tiv, <<True>>),
                   Assignment(id_s, Num(1)), Call(name_gre, <<Str(id_b)>>)}

BinaryOperators ==
    {op_plus, op_minus, op_multiply, op_divide, op_modulo, op_equals, op_not_equals,
     op_less, op_greater, op_less_equal, op_greater_equal, kw_and, kw_or}

\* r = a op b; write(r)
BinaryPrograms ==
    {<<Set(id_r, BinaryOp(a, op, b)), Write(Var(id_r))>> :
        a \in Atoms, b \in Atoms, op \in BinaryOperators}

\* r = op a; write(r)
UnaryPrograms ==
    {<<Set(id_r, UnaryOp(op, a)), Write(Var(id_r))>> : a \in Atoms, op \in {kw_not, op_minus}}

ReturnExprs == {Var(id_a), Str(id_b), NullLiteral, True}

\* f(a) { while true { if a == K { return V }; a = a + 1 }; d = 9 }; b = f(0); write(b)
NestedReturnPrograms ==
    {<<Fun(id_f, <<id_a>>,
           <<While(True, <<If(BinaryOp(Var(id_a), op_equals, Num(n)), <<Ret(v)>>),
                           Set(id_a, BinaryOp(Var(id_a), op_plus, Num(1)))>>),
             Set(id_d, Num(9))>>),
       Set(id_b, Call(id_f, <<Num(0)>>)),
       Write(Var(id_b))>> : n \in 0..MaxLit, v \in ReturnExprs}

\* g(a) { while true { if a { return V; d = 9 } else { return } }; d = 9 }
\* f(a) { b = g(a); t = 5; return b }; r = f(X); write(r, t)
InnerReturnPrograms ==
    {<<Fun(id_g, <<id_a>>,
           <<While(True, <<IfElse(Var(id_a), <<Ret(v), Set(id_d, Num(9))>>, <<RetNone>>)>>),
             Set(id_d, Num(9))>>),
       Fun(id_f, <<id_a>>, <<Set(id_b, Call(id_g, <<Var(id_a)>>)), Set(id_t, Num(5)),
                             Ret(Var(id_b))>>),
       Set(id_r, Call(id_f, <<x>>)),
       Expr(Call(name_gre, <<Var(id_r), Var(id_t)>>))>> : v \in ReturnExprs, x \in Literals}

\* a body that ends without a return statement, and one that returns no value
NoReturnPrograms ==
    {<<Fun(id_f, <<>>, body), Set(id_r, Call(id_f, <<>>)), Write(Var(id_r))>> :
        body \in {<<>>, <<Set(id_a, Num(1))>>, <<RetNone, Set(id_d, Num(9))>>,
                  <<If(False, <<Ret(Num(1))>>)>>}}

\* a runtime error below two calls and a loop, with a statement after it
ErrorPrograms ==
    {<<Fun(id_g, <<id_a>>, <<If(Var(id_a), <<Ret(bad)>>), Ret(Num(0))>>),
       Fun(id_f, <<id_a>>, <<While(True, <<Ret(Call(id_g, <<Var(id_a)>>))>>)>>),
       Set(id_r, Call(id_f, <<x>>)),
       Write(Var(id_r))>> :
        bad \in {Var(id_z), BinaryOp(Num(1), op_divide, Num(0)),
                 BinaryOp(Num(1), op_modulo, Num(0)), Call(id_a, <<>>),
                 Call(id_g, <<>>)},
        x \in {True, False}}

\* a = 1; g() { return a }; f(a) { return g() }; r = f(2): which a does g read
ScopePrograms ==
    {<<Set(id_a, Num(1)),
       Fun(id_g, <<>>, <<Set(id_t, Var(id_a)), Ret(Var(id_t))>>),
       Fun(id_f, params, <<Ret(Call(id_g, <<>>))>>),
       Set(id_r, Call(id_f, args)),
       Write(Var(id_r))>> :
        params \in {<<id_a>>, <<id_b>>}, args \in {<<Num(2)>>, <<Num(0)>>}}

\* a = 1; g() { X = 7; return a }; f(P) { g(); return a }; r = f(2); write(a, r):
\* which binding does the assignment in g change
AssignPrograms ==
    {<<Set(id_a, Num(1)),
       Fun(id_g, <<>>, <<Set(x, Num(7)), Ret(Var(x))>>),
       Fun(id_f, <<p>>, <<Expr(Call(id_g, <<>>)), Ret(Var(id_a))>>),
       Set(id_r, Call(id_f, <<Num(2)>>)),
       Expr(Call(name_gre, <<Var(id_a), Var(id_r)>>))>> :
        x \in {id_a, id_b}, p \in {id_a, id_b}}

\* return statements outside every function
TopLevelReturnPrograms ==
    {<<Write(Num(1)), Ret(Num(2)), Write(Num(3))>>,
     <<RetNone, Write(Num(3))>>,
     <<If(True, <<Ret(Num(2))>>), Write(Num(3))>>,
     <<While(True, <<IfElse(False, <<>>, <<Ret(Str(id_a))>>)>>), Write(Num(3))>>}

\* f(a) { if a < 1 { return 0 }; return f(a - 1) + 1 }; r = f(N)
RecursionPrograms ==
    {<<Fun(id_f, <<id_a>>,
           <<If(BinaryOp(Var(id_a), op_less, Num(1)), <<Ret(Num(0))>>),
             Ret(BinaryOp(Call(id_f, <<BinaryOp(Var(id_a), op_minus, Num(1))>>),
                          op_plus, Num(1)))>>),
       Set(id_r, Call(id_f, <<Num(n)>>)),
       Write(Var(id_r))>> : n \in 0..MaxLit}

\* calls with the wrong number of arguments, of user functions and built-ins
ArityPrograms ==
    {<<Fun(id_f, <<id_a>>, <<Set(id_s, Num(9)), Ret(Var(id_a))>>),
       Set(id_r, Call(f, args)),
       Write(Var(id_r))>> :
        f \in {id_f, name_tiv, name_bar, name_gre},
        args \in {<<>>, <<Num(1)>>, <<Str(<<49, 46, 53>>), Num(2)>>}}

\* f(a) { write(a); return a }
\* a = 0; while a < N { write(f(a), write(), V); a = a + 1 }; write()
OutputPrograms ==
    {<<Fun(id_f, <<id_a>>, <<Write(Var(id_a)), Ret(Var(id_a))>>),
       Set(id_a, Num(0)),
       While(BinaryOp(Var(id_a), op_less, Num(n)),
             <<Expr(Call(name_gre, <<Call(id_f, <<Var(id_a)>>), Call(name_gre, <<>>), v>>)),
               Set(id_a, BinaryOp(Var(id_a), op_plus, Num(1)))>>),
       Expr(Call(name_gre, <<>>))>> : n \in 1..MaxLit, v \in {Str(id_b), Var(id_z)}}

\* f(a) { write(a); return a }; b = 0; C(X...); write(b): a callee C that is
\* undefined, not a function or a function, and arguments X with effects
CallOrderPrograms ==
    {<<Fun(id_f, <<id_a>>, <<Write(Var(id_a)), Ret(Var(id_a))>>),
       Set(id_b, Num(0)),
       Expr(Call(callee, args)),
       Write(Var(id_b))>> :
        callee \in {id_z, id_b, id_f},
        args \in {<<Assignment(id_b, Num(1))>>,
                  <<Assignment(id_b, Num(1)), Call(name_gre, <<Var(id_b)>>)>>,
                  <<Call(id_f, <<Num(1)>>), Call(name_gre, <<Num(2)>>), Var(id_z)>>}}

\* f(t) { if t { a = 1; g() { return 5 } } else { a = 2 }
\*        while a < 3 { s = a; a = a + 1 }
\*        write(a, s); return g() }
\* if C { b = 1 }; r = f(C); write(r, b)
BlockPrograms ==
    {<<Fun(id_f, <<id_t>>,
           <<IfElse(Var(id_t),
                    <<Set(id_a, Num(1)), Fun(id_g, <<>>, <<Ret(Num(5))>>)>>,
                    <<Set(id_a, Num(2))>>),
             While(BinaryOp(Var(id_a), op_less, Num(3)),
                   <<Set(id_s, Var(id_a)), Set(id_a, BinaryOp(Var(id_a), op_plus, Num(1)))>>),
             Expr(Call(name_gre, <<Var(id_a), Var(id_s)>>)),
             Ret(Call(id_g, <<>>))>>),
       If(c, <<Set(id_b, Num(1))>>),
       Set(id_r, Call(id_f, <<c>>)),
       Expr(Call(name_gre, <<Var(id_r), Var(id_b)>>))>> : c \in {True, False}}

\* a = 1; g(a) { a = 9; return a }; f(P) { a = a + 5; b = g(a); return a }
\* r = f(2); write(a, r): calls that assign to a parameter named like a global
ParameterPrograms ==
    {<<Set(id_a, Num(1)),
       Fun(id_g, <<id_a>>, <<Set(id_a, Num(9)), Ret(Var(id_a))>>),
       Fun(id_f, <<p>>, <<Set(id_a, BinaryOp(Var(id_a), op_plus, Num(5))),
                          Set(id_b, Call(id_g, <<Var(id_a)>>)),
                          Ret(Var(id_a))>>),
       Set(id_r, Call(id_f, <<Num(2)>>)),
       Expr(Call(name_gre, <<Var(id_a), Var(id_r)>>))>> : p \in {id_a, id_t}}

Programs ==
    BinaryPrograms \cup UnaryPrograms \cup NestedReturnPrograms \cup InnerReturnPrograms
        \cup NoReturnPrograms \cup ErrorPrograms \cup ScopePrograms \cup AssignPrograms
        \cup TopLevelReturnPrograms \cup RecursionPrograms \cup ArityPrograms
        \cup OutputPrograms \cup CallOrderPrograms \cup BlockPrograms
        \cup ParameterPrograms

\* REPL inputs: the declarations every session starts with, then MaxInputs more
ReplDeclarations ==
    <<Fun(id_g, <<id_a>>, <<If(Var(id_a), <<Ret(Var(id_z))>>), Ret(Num(0))>>),
      Fun(id_f, <<id_a>>, <<While(True, <<Ret(Call(id_g, <<Var(id_a)>>))>>)>>)>>

ReplInputs ==
    {<<Expr(Call(id_f, <<True>>))>>,
     <<Expr(Call(id_f, <<False>>))>>,
     <<Ret(Num(1))>>,
     <<Set(id_z, Num(1))>>,
     <<Expr(Var(id_a))>>,
     <<Set(id_a, Num(2)), Expr(Var(id_a))>>}

RECURSIVE SeqsOf(_, _)
SeqsOf(S, n) ==
    IF n = 0 THEN {<<>>}
    ELSE {Append(q, x) : q \in SeqsOf(S, n - 1), x \in S}

ReplSessions ==
    {<<Program(ReplDeclarations)>> \o q : q \in SeqsOf({Program(p) : p \in ReplInputs}, MaxInputs)}

(***************************************************************************)
(* The evaluator run on a parsed program (run_source from its interpret    *)
(* stage on) or on the inputs of a REPL session.                           *)
(***************************************************************************)
IdleLexer == source = <<>> /\ position = 0 /\ line = 1 /\ column = 1
IdleParser == tokens = <<>> /\ current = 0 /\ statements = <<>>

InitEval ==
    /\ \/ \E p \in Programs :
            /\ stack = <<Frame("run_source", NoNode, 2)>>
            /\ ctl = "return"
            /\ val = Program(p)
            /\ envs = <<>>
            /\ environment = NoEnv
       \/ \E session \in ReplSessions :
            /\ stack = <<Frame("repl", Inputs(session), 0)>>
            /\ ctl = "run"
            /\ val = NoValue
            /\ envs = setup_builtins
            /\ environment = Root
    /\ exc = NoExc
    /\ out = <<>>
    /\ IdleLexer
    /\ IdleParser

NextEval ==
    \/ Propagate
    \/ execute_ExpressionStatement
    \/ execute_IfStatement
    \/ execute_WhileStatement
    \/ execute_ReturnStatement
    \/ execute_FunctionDeclaration
    \/ evaluate_literal
    \/ evaluate_Identifier
    \/ evaluate_Assignment
    \/ evaluate_binary_op
    \/ evaluate_unary_op
    \/ evaluate_function_call
    \/ BuiltinFunction_call
    \/ SoorjFunction_call
    \/ SoorjFunction_body
    \/ SoorjFunction_except
    \/ interpret
    \/ interpret_except
    \/ run_source_interpret
    \/ run_source_return
    \/ run_source_except
    \/ repl_input
    \/ repl_execute
    \/ repl_except

SpecEval == InitEval /\ [][NextEval]_vars

(***************************************************************************)
(* Sources: the texts run_source is given.                                 *)
(***************************************************************************)
\* a function with a loop, a branch, a unary and a call, after a comment
src_program ==
    <<35, 32, 1377, 10, 1379, 1400, 1408, 1390, 32, 1414, 40, 1377, 41, 32, 123, 10,
      32, 32, 1396, 1387, 1398, 1401, 1415, 32, 1377, 32, 60, 32, 50, 32, 123, 10, 32,
      32, 32, 32, 1377, 32, 61, 32, 1377, 32, 43, 32, 49, 10, 32, 32, 125, 10, 32, 32,
      1381, 1385, 1381, 32, 1401, 1387, 32, 40, 1377, 32, 61, 61, 32, 50, 41, 32, 123,
      32, 1407, 1400, 1410, 1408, 32, 48, 32, 125, 32, 1392, 1402, 32, 123, 32, 1407,
      1400, 1410, 1408, 32, 45, 1377, 32, 125, 10, 125, 10, 1408, 32, 61, 32, 1414, 40,
      48, 41, 10, 1379, 1408, 1383, 40, 34, 1377, 34, 44, 32, 1408, 41, 10>>

\* an undefined name between two writes
src_runtime ==
    <<1379, 1408, 1383, 40, 49, 41, 10, 1379, 1408, 1383, 40, 1382, 41, 10, 1379, 1408,
      1383, 40, 50, 41>>

\* a division by zero inside a loop inside a call
src_runtime_deep ==
    <<1379, 1400, 1408, 1390, 32, 1414, 40, 1377, 41, 32, 123, 10, 32, 1396, 1387,
      1398, 1401, 1415, 32, 1377, 1397, 1400, 32, 123, 32, 1407, 1400, 1410, 1408, 32,
      49, 32, 47, 32, 1377, 32, 125, 10, 125, 10, 1379, 1408, 1383, 40, 49, 41, 10,
      1379, 1408, 1383, 40, 1414, 40, 48, 41, 41, 10, 1379, 1408, 1383, 40, 50, 41>>

\* an unknown character between two writes
src_lexical ==
    <<1379, 1408, 1383, 40, 49, 41, 10, 64, 10, 1379, 1408, 1383, 40, 50, 41>>

\* a Latin letter inside a string literal
src_lexical_string ==
    <<1379, 1408, 1383, 40, 49, 41, 10, 1379, 1408, 1383, 40, 34, 97, 34, 41>>

\* a doubled assignment sign between two writes
src_syntax ==
    <<1379, 1408, 1383, 40, 49, 41, 10, 1377, 32, 61, 32, 61, 32, 50, 10, 1379, 1408,
      1383, 40, 51, 41>>

\* an if statement whose body is never closed
src_syntax_brace ==
    <<1379, 1408, 1383, 40, 49, 41, 10, 1381, 1385, 1381, 32, 1377, 1397, 1400, 32,
      123, 10, 1379, 1408, 1383, 40, 51, 41>>

\* a return statement outside every function, between two writes
src_return ==
    <<1379, 1408, 1383, 40, 49, 41, 10, 1407, 1400, 1410, 1408, 32, 53, 10, 1379, 1408,
      1383, 40, 50, 41>>

\* a modulo by zero between two writes
src_modulo ==
    <<1379, 1408, 1383, 40, 49, 41, 10, 1379, 1408, 1383, 40, 49, 32, 37, 32, 48, 41,
      10, 1379, 1408, 1383, 40, 50, 41>>

\* a number lexeme with two dots
src_number ==
    <<1379, 1408, 1383, 40, 49, 41, 10, 1379, 1408, 1383, 40, 49, 46, 50, 46, 51, 41>>

\* a closing brace outside every block
src_brace ==
    <<1379, 1408, 1383, 40, 49, 41, 10, 125, 10, 1379, 1408, 1383, 40, 50, 41>>

\* a = 10, b = 20, write(a + b): the sum of two whole numbers
src_sum ==
    <<1377, 32, 61, 32, 49, 48, 10, 1378, 32, 61, 32, 50, 48, 10,
      1379, 1408, 1383, 40, 1377, 32, 43, 32, 1378, 41>>

SampleSources ==
    {src_program, src_runtime, src_runtime_deep, src_lexical, src_lexical_string,
     src_syntax, src_syntax_brace, src_return, src_modulo, src_number, src_brace,
     src_sum}

\* a letter, a digit, '.', '"', '=', newline, '#', '@', '}', '\' and a blank
SourceAlphabet == {1377, 49, 46, 34, 61, 10, 35, 64, 125, 92, 32}

ShortSources(longest) == UNION {SeqsOf(SourceAlphabet, n) : n \in 0..longest}

Sources(longest) == SampleSources \cup ShortSources(longest)

(***************************************************************************)
(* run_source on a source text.                                            *)
(***************************************************************************)
Init ==
    /\ source \in Sources(MaxSource)
    /\ stack = <<Frame("run_source", NoNode, 0)>>
    /\ ctl = "run"
    /\ val = NoValue
    /\ exc = NoExc
    /\ envs = <<>>
    /\ environment = NoEnv
    /\ out = <<>>
    /\ position = 0
    /\ line = 1
    /\ column = 1
    /\ IdleParser

Next ==
    \/ run_source_tokenize
    \/ tokenize
    \/ run_source_parse
    \/ parse
    \/ statement
    \/ if_statement
    \/ while_statement
    \/ return_statement
    \/ function_declaration
    \/ expression_statement
    \/ expression
    \/ assignment
    \/ logical_or
    \/ logical_and
    \/ equality
    \/ comparison
    \/ term
    \/ factor
    \/ unary
    \/ call
    \/ finish_call
    \/ primary
    \/ run_source_interpret
    \/ run_source_return
    \/ run_source_except
    \/ interpret
    \/ interpret_except
    \/ Propagate
    \/ execute_ExpressionStatement
    \/ execute_IfStatement
    \/ execute_WhileStatement
    \/ execute_ReturnStatement
    \/ execute_FunctionDeclaration
    \/ evaluate_literal
    \/ evaluate_Identifier
    \/ evaluate_Assignment
    \/ evaluate_binary_op
    \/ evaluate_unary_op
    \/ evaluate_function_call
    \/ BuiltinFunction_call
    \/ SoorjFunction_call
    \/ SoorjFunction_body
    \/ SoorjFunction_except

Spec == Init /\ [][Next]_vars

(***************************************************************************)
(* Token lists: what Parser is constructed with.  A list is laid out as    *)
(* the Lexer lays out a source whose tokens are each followed by one       *)
(* blank: every list ends in its only EOF token.                           *)
(***************************************************************************)
Lexeme(type) ==
    CASE type = "NUMBER" -> <<49>>
      [] type = "STRING" -> id_b
      [] type = "IDENTIFIER" -> id_a
      [] type = "IF" -> kw_if
      [] type = "ELSE" -> kw_else
      [] type = "WHILE" -> kw_while
      [] type = "FUNCTION" -> kw_function
      [] type = "RETURN" -> kw_return
      [] type = "TRUE" -> kw_true
      [] type = "FALSE" -> kw_false
      [] type = "NULL" -> kw_null
      [] type = "AND" -> kw_and
      [] type = "OR" -> kw_or
      [] type = "NOT" -> kw_not
      [] type = "ASSIGN" -> <<61>>
      [] type = "PLUS" -> op_plus
      [] type = "MINUS" -> op_minus
      [] type = "MULTIPLY" -> op_multiply
      [] type = "EQUALS" -> op_equals
      [] type = "LESS_THAN" -> op_less
      [] type = "LEFT_PAREN" -> <<40>>
      [] type = "RIGHT_PAREN" -> <<41>>
      [] type = "LEFT_BRACE" -> <<123>>
      [] type = "RIGHT_BRACE" -> <<125>>
      [] type = "COMMA" -> <<44>>
      [] type = "NEWLINE" -> <<10>>
      [] OTHER -> <<>>

\* the characters of the source a token of this type spans
Width(type) == Len(Lexeme(type)) + (IF type = "STRING" THEN 2 ELSE 0)

RECURSIVE Laid(_, _, _, _)
Laid(types, i, line_, column_) ==
    IF i > Len(types) THEN <<Token("EOF", <<>>, line_, column_)>>
    ELSE <<Token(types[i], Lexeme(types[i]), line_, column_)>>
           \o (IF types[i] = "NEWLINE" THEN Laid(types, i + 1, line_ + 1, 1)
               ELSE Laid(types, i + 1, line_, column_ + Width(types[i]) + 1))

TokenTypes ==
    {"NUMBER", "IDENTIFIER", "IF", "ELSE", "RETURN", "FUNCTION", "ASSIGN", "PLUS",
     "LEFT_PAREN", "RIGHT_PAREN", "LEFT_BRACE", "RIGHT_BRACE", "COMMA", "NEWLINE"}

\* longer lists: every statement form with its blocks, closed and unclosed
SampleTypes ==
    {<<"FUNCTION", "IDENTIFIER", "LEFT_PAREN", "IDENTIFIER", "COMMA", "IDENTIFIER",
       "RIGHT_PAREN", "NEWLINE", "LEFT_BRACE", "NEWLINE", "RETURN", "IDENTIFIER", "NEWLINE",
       "RETURN", "NEWLINE", "RIGHT_BRACE", "NEWLINE">>,
     <<"NOT", "MINUS", "NUMBER", "OR", "TRUE", "AND", "FALSE", "EQUALS", "NULL",
       "LESS_THAN", "NUMBER", "PLUS", "NUMBER", "MULTIPLY", "STRING">>,
     <<"IF", "NOT", "TRUE", "LEFT_BRACE", "IDENTIFIER", "ASSIGN", "IDENTIFIER", "ASSIGN",
       "NUMBER", "RIGHT_BRACE", "ELSE", "LEFT_BRACE", "NEWLINE", "RIGHT_BRACE">>,
     <<"WHILE", "IDENTIFIER", "LEFT_PAREN", "NUMBER", "COMMA", "STRING", "RIGHT_PAREN",
       "LEFT_BRACE", "IF", "LEFT_PAREN", "TRUE", "RIGHT_PAREN", "LEFT_BRACE", "RIGHT_BRACE",
       "NEWLINE", "RIGHT_BRACE">>,
     <<"IF", "NUMBER", "LEFT_BRACE", "NEWLINE", "IDENTIFIER", "NEWLINE">>,
     <<"IF", "NUMBER", "LEFT_BRACE", "RIGHT_BRACE", "ELSE", "NEWLINE", "IDENTIFIER">>,
     <<"WHILE", "NUMBER", "LEFT_BRACE", "RETURN", "RIGHT_BRACE">>,
     <<"FUNCTION", "IDENTIFIER", "LEFT_PAREN", "RIGHT_PAREN", "LEFT_BRACE", "IDENTIFIER",
       "RIGHT_BRACE", "RIGHT_BRACE", "IDENTIFIER">>,
     <<"NUMBER", "LEFT_PAREN", "RIGHT_PAREN">>,
     <<"IDENTIFIER", "NEWLINE", "RIGHT_BRACE", "NEWLINE", "IDENTIFIER">>}

TokenLists(longest) ==
    {Laid(types, 1, 1, 1) :
        types \in SampleTypes \cup UNION {SeqsOf(TokenTypes, n) : n \in 0..longest}}

(***************************************************************************)
(* Parser.parse on a token list (run_source from its parse stage on, up to *)
(* the return of parse).                                                   *)
(***************************************************************************)
InitParse ==
    /\ tokens \in TokenLists(MaxTokens)
    /\ stack = <<Frame("run_source", NoNode, 1)>>
    /\ ctl = "return"
    /\ val = NoValue
    /\ exc = NoExc
    /\ envs = <<>>
    /\ environment = NoEnv
    /\ out = <<>>
    /\ IdleLexer
    /\ current = 0
    /\ statements = <<>>

NextParse ==
    \/ run_source_parse
    \/ parse
    \/ statement
    \/ if_statement
    \/ while_statement
    \/ return_statement
    \/ function_declaration
    \/ expression_statement
    \/ expression
    \/ assignment
    \/ logical_or
    \/ logical_and
    \/ equality
    \/ comparison
    \/ term
    \/ factor
    \/ unary
    \/ call
    \/ finish_call
    \/ primary
    \/ Propagate
    \/ run_source_except

SpecParse == InitParse /\ [][NextParse]_vars

(***************************************************************************)
(* Properties of the evaluator                                             *)
(***************************************************************************)
BinaryOpReady(operators) ==
    /\ Running("evaluate", {"BinaryOp"})
    /\ ctl = "return"
    /\ Top.pc = 2
    /\ Top.node.operator \in operators

\* a binary operation whose right operand is being, or has been, evaluated
RightStarted(f) == f.fn = "evaluate" /\ f.node.k = "BinaryOp" /\ f.pc = 2

\* C1: logical operators short-circuit: the right operand of `or` is never evaluated
\* when the left one is truthy, nor that of `and` when the left one is falsy.
C1_ShortCircuit ==
    \A i \in DOMAIN stack :
        RightStarted(stack[i]) =>
            /\ stack[i].node.operator = kw_or => ~is_truthy(stack[i].vals[1])
            /\ stack[i].node.operator = kw_and => is_truthy(stack[i].vals[1])

CallFrames == {i \in DOMAIN stack : stack[i].fn = "SoorjFunction.call"}
CallsAbove(i) == {j \in CallFrames : j > i}
Min(S) == CHOOSE x \in S : \A y \in S : x <= y
\* the environment that is current whenever frame i runs
CurEnv(i) == IF CallsAbove(i) = {} THEN environment ELSE stack[Min(CallsAbove(i))].prev_env

\* C3: the current environment always matches the active calls: outside every call
\* it is the root environment (also after a return-signal or an error left a call, and
\* between REPL inputs), and inside a call it is the call's own environment, made from
\* the environment that was current before the call.
C3_EnvironmentRestored ==
    envs # <<>> =>
        /\ stack = <<>> => environment = Root
        /\ \A i \in DOMAIN stack :
              IF stack[i].fn = "SoorjFunction.call"
              THEN envs[CurEnv(i)].parent = stack[i].prev_env
              ELSE (\A j \in CallFrames : j > i) => CurEnv(i) = Root

\* a runtime error raised two calls deep has reached the top level
C3_Witness ==
    /\ ctl = "raise"
    /\ exc.type = "RuntimeError"
    /\ Len(stack) > 0
    /\ Top.fn \in {"repl", "interpret"}
    /\ Len(envs) >= 3
    /\ environment = Root

NoDeadCode == \A e \in DOMAIN envs : id_d \notin DOMAIN envs[e].variables

ReturnSignal == ctl = "raise" /\ exc.type = "ReturnValue" /\ Len(stack) > 0

\* C4: a return-signal passes every execute/evaluate frame untouched and is consumed by
\* the first call frame it meets, which alone leaves the stack and yields the carried
\* value; a body that ends without a return yields null; no statement placed after a
\* return in a body ever runs.
C4_ReturnSignal ==
    /\ [][/\ (ReturnSignal /\ Top.fn \in {"execute", "evaluate"}) =>
                (stack' = Below /\ ctl' = "raise" /\ exc' = exc /\ envs' = envs /\ out' = out)
          /\ (ReturnSignal /\ Top.fn = "SoorjFunction.call") =>
                (stack' = Below /\ ctl' = "return" /\ val' = exc.value)
          /\ (On("SoorjFunction.call") /\ ctl \in {"run", "return"} /\ ~MoreStatements(Top)) =>
                (stack' = Below /\ ctl' = "return" /\ val' = Null)]_vars
    /\ []NoDeadCode

\* a return-signal carrying a non-null value is in flight inside an if inside a while,
\* with two calls active
C4_Witness ==
    /\ ReturnSignal
    /\ exc.value.type_name # "null"
    /\ Len(stack) > 2
    /\ Top.fn = "execute" /\ Top.node.k = "IfStatement"
    /\ stack[Len(stack) - 1].fn = "execute" /\ stack[Len(stack) - 1].node.k = "WhileStatement"
    /\ Cardinality(CallFrames) >= 2

\* C5: a return statement executed outside every function call is reported by
\* Interpreter.interpret as a runtime error.
C5_TopLevelReturn ==
    [][(ReturnSignal /\ Top.fn = "interpret") =>
          /\ ctl' = "return"
          /\ Len(out') = Len(out) + 1
          /\ out'[Len(out')].prefix = "Runtime error: "]_vars

RECURSIVE Chain(_, _)
Chain(E, e) == IF e = NoEnv THEN <<>> ELSE <<e>> \o Chain(E, E[e].parent)

Defines(E, e, name) == name \in DOMAIN E[e].variables
FirstDefining(E, chain, name) ==
    LET hits == {i \in DOMAIN chain : Defines(E, chain[i], name)}
    IN  IF hits = {} THEN NoEnv ELSE chain[Min(hits)]

\* C6: an assignment changes the binding of its target in the nearest environment of the
\* chain that defines it, or creates it in the current environment when none does;
\* every other binding of every environment stays, and the result is the assigned value.
C6_Assignment ==
    [][(Running("evaluate", {"Assignment"}) /\ ctl = "return") =>
          LET name == Top.node.target
              hit == FirstDefining(envs, Chain(envs, environment), name)
              target == IF hit = NoEnv THEN environment ELSE hit
          IN  /\ DOMAIN envs' = DOMAIN envs
              /\ \A e \in DOMAIN envs :
                    /\ envs'[e].parent = envs[e].parent
                    /\ DOMAIN envs'[e].variables =
                          DOMAIN envs[e].variables \cup (IF e = target THEN {name} ELSE {})
                    /\ \A n \in DOMAIN envs'[e].variables :
                          envs'[e].variables[n] =
                              IF e = target /\ n = name THEN val ELSE envs[e].variables[n]
              /\ ctl' = "return"
              /\ val' = val]_vars

\* 7 was assigned to a name bound in the caller's environment and in the root: the
\* caller's binding changed, the root's did not, and the current environment has none
C6_Witness ==
    /\ ctl = "return"
    /\ val = SoorjValue(PyFloat(7, 1), "number")
    /\ environment # Root
    /\ envs # <<>>
    /\ ~Defines(envs, environment, id_a)
    /\ envs[environment].parent # Root
    /\ Defines(envs, envs[environment].parent, id_a)
    /\ envs[envs[environment].parent].variables[id_a] = val
    /\ Defines(envs, Root, id_a)
    /\ envs[Root].variables[id_a] = SoorjValue(PyFloat(1, 1), "number")

\* the environments of the active calls, innermost first, then the one below them all
RECURSIVE CallerChain(_)
CallerChain(i) ==
    IF i = 0 THEN <<>>
    ELSE IF stack[i].fn = "SoorjFunction.call" THEN <<stack[i].prev_env>> \o CallerChain(i - 1)
    ELSE CallerChain(i - 1)

\* C7: a name read in a function body resolves along the chain of callers: to the
\* binding of the innermost active call's environment that defines it, then its
\* caller's, and so on down to the root.
C7_CallerScope ==
    [][Running("evaluate", {"Identifier"}) =>
          LET chain == <<environment>> \o CallerChain(Len(stack))
              hit == FirstDefining(envs, chain, Top.node.name)
          IN  IF hit = NoEnv THEN ctl' = "raise"
              ELSE ctl' = "return" /\ val' = envs[hit].variables[Top.node.name]]_vars

\* a name is read that the current call does not bind, its caller binds, and the root
\* binds to another value
C7_Witness ==
    /\ Running("evaluate", {"Identifier"})
    /\ environment # Root
    /\ ~Defines(envs, environment, Top.node.name)
    /\ envs[environment].parent # Root
    /\ Defines(envs, envs[environment].parent, Top.node.name)
    /\ Defines(envs, Root, Top.node.name)
    /\ envs[Root].variables[Top.node.name]
          # envs[envs[environment].parent].variables[Top.node.name]

\* C8: for operands of different tags, == yields boolean false and != boolean true.
C8_DifferentTags ==
    [][(BinaryOpReady({op_equals, op_not_equals}) /\ Top.vals[1].type_name # val.type_name) =>
          /\ ctl' = "return"
          /\ val' = SoorjValue(PyBool(Top.node.operator = op_not_equals), "boolean")]_vars

\* C9: + with a string operand, unless both operands are numbers, yields the
\* concatenation of the operands' display forms, the forms the write built-in prints.
C9_ConcatDisplayForms ==
    [][(/\ BinaryOpReady({op_plus})
        /\ Top.vals[1].type_name = "string" \/ val.type_name = "string") =>
          /\ ctl' = "return"
          /\ val' = SoorjValue(PyStr(SoorjValue_str(Top.vals[1]) \o SoorjValue_str(val)),
                               "string")]_vars

(***************************************************************************)
(* Properties of the parser                                                *)
(***************************************************************************)

\* the call of statement made by a loop iteration ends: it returns or raises
StatementEnds == On("statement") /\ stack' = Below

\* C2: Parser.parse ends by returning a Program or raising a syntax error: every
\* iteration of its loop and of the block loops of if, while and function bodies (an
\* iteration is a call of statement, with the newlines parse skips before it) consumes at
\* least one token or raises, Parser.current never moves back, and what is raised is a
\* SyntaxError.
C2_ParseProgress ==
    [][/\ StatementEnds => (ctl' = "raise" \/ current' > Top.i)
       /\ (Len(stack) > 0 /\ Top.fn \in ParserFrames) =>
              /\ current' >= current
              /\ ctl' = "raise" => exc'.type = "SyntaxError"]_vars

(***************************************************************************)
(* Properties of run_source                                                *)
(***************************************************************************)
\* the kind of the error a handler of the driver is about to print: lexical when
\* tokenize raised it, syntax when parse did, runtime when the interpreter did
Handling(kind) ==
    /\ ctl = "raise"
    /\ CASE kind = "lexical" -> On("run_source") /\ Top.pc = 1
         [] kind = "syntax" -> On("run_source") /\ Top.pc = 2 /\ exc.type = "SyntaxError"
         [] kind = "runtime" -> On("interpret") /\ exc.type = "RuntimeError"

KindPrefix(kind) ==
    CASE kind = "lexical" -> "Lexical error: "
      [] kind = "syntax" -> "Syntax error: "
      [] kind = "runtime" -> "Runtime error: "

ErrorLines == {i \in DOMAIN out : out[i].e.type # "none"}

Executing == \E i \in DOMAIN stack : stack[i].fn \in {"execute", "evaluate", "SoorjFunction.call"}

\* C10: a lexical, syntax or runtime error raised while a source runs reaches the
\* driver, which prints exactly one line for it, prefixed with the error's own kind, so
\* that the output tells the three kinds apart; once the line is printed no statement of
\* the program executes any more.
C10_ErrorKinds ==
    /\ [][\A kind \in {"lexical", "syntax", "runtime"} :
             Handling(kind) =>
                /\ Len(out') = Len(out) + 1
                /\ out'[Len(out')].e = exc
                /\ out'[Len(out')].prefix = KindPrefix(kind)]_vars
    /\ [](ErrorLines # {} => (Cardinality(ErrorLines) = 1 /\ ~Executing))

(***************************************************************************)
(* Properties of the lexer                                                 *)
(***************************************************************************)
\* tokenize has returned to run_source
Tokenized == On("run_source") /\ Top.pc = 1 /\ ctl = "return"

EOFs == {i \in DOMAIN tokens : tokens[i].type = "EOF"}

\* C11: when tokenize returns without raising, the token list holds exactly one
\* end-of-input token and it is the last element of the list (and no end-of-input
\* token is in the list before tokenize returns).
C11_OneEOF ==
    /\ Tokenized => EOFs = {Len(tokens)}
    /\ On("tokenize") => EOFs = {}

\* tokenize returned a list of several tokens spanning more than one line
C11_Witness ==
    /\ Tokenized
    /\ Len(tokens) >= 4
    /\ tokens[Len(tokens)].line > 1

NumberTokens == {i \in DOMAIN tokens : tokens[i].type = "NUMBER"}
Dots(s) == {i \in DOMAIN s : s[i] = 46}
\* the parser is at work on the token list
Parsing == \E i \in DOMAIN stack : stack[i].fn = "parse"
\* `float(token.value)` of Parser.primary raised
ConversionFailed == Parsing /\ ctl = "raise" /\ exc.type = "ValueError"

\* C12: every number token has a lexeme that starts with a digit, consists of
\* digits and at most one `.`, and the parser's conversion of a number token's
\* lexeme to a double never fails.
C12_NumberLexemes ==
    /\ \A i \in NumberTokens :
          LET lexeme == tokens[i].value
          IN  /\ Len(lexeme) > 0 /\ IsDigit(lexeme[1])
              /\ \A j \in DOMAIN lexeme : IsDigit(lexeme[j]) \/ lexeme[j] = 46
              /\ Cardinality(Dots(lexeme)) <= 1
    /\ ~ConversionFailed

\* the main loop of Lexer.tokenize run to its end on a Lexer L: the token list
\* it returns, with the extent in the source of every string literal read
RECURSIVE tokenize_loop(_, _, _)
tokenize_loop(L0, toks, strings) ==
    LET L == skip_whitespace(L0)
        char == current_char(L)
        scanned == scan(L)
        string == [first |-> L.position + 1, last |-> scanned.lexer.position,
                   closed |-> current_char(read_string_loop(advance(L), char, <<>>).lexer)
                                 = char]
    IN  IF L0.position < Len(L0.source) /\ char # NoChar
        THEN IF scanned.ok
             THEN tokenize_loop(scanned.lexer,
                                IF scanned.token.type = "none" THEN toks
                                ELSE Append(toks, scanned.token),
                                IF char \in {34, 39} THEN strings \cup {string}
                                ELSE strings)
             ELSE [ok |-> FALSE, tokens |-> toks, strings |-> strings]
        ELSE [ok |-> TRUE, tokens |-> Append(toks, EOF_token(L)), strings |-> strings]

\* `Lexer(source).tokenize()`
Lexer_tokenize(text) ==
    tokenize_loop([source |-> text, position |-> 0, line |-> 1, column |-> 1], <<>>, {})

\* the ends of the lines of a text: the places of its newlines and its end
LineEnds(text) == {i \in DOMAIN text : text[i] = 10} \cup {Len(text) + 1}
\* the text with a comment put at the line end e
Commented(text, e, comment) ==
    SubSeq(text, 1, e - 1) \o comment \o SubSeq(text, e, Len(text))
\* `#` followed by characters other than newline
Comments == {<<35>>, <<35, 49>>, <<35, 34, 1377>>}
\* the line end e lies inside a string literal of the text
InString(text, e) ==
    \E string \in Lexer_tokenize(text).strings :
        /\ string.first < e
        /\ e <= (IF string.closed THEN string.last ELSE string.last + 1)
\* two token lists with the same kinds, lexemes and lines
SameTokens(a, b) ==
    /\ Len(a) = Len(b)
    /\ \A i \in DOMAIN a :
          a[i].type = b[i].type /\ a[i].value = b[i].value /\ a[i].line = b[i].line
\* the comment at the line end e leaves the token list of the source as it is
CommentIgnored(e, comment) ==
    LET commented == Lexer_tokenize(Commented(source, e, comment))
    IN  commented.ok /\ SameTokens(tokens, commented.tokens)

\* C13 as stated: a comment appended to any line of a source that tokenize accepts,
\* a line that ends inside a string literal included, leaves the token sequence
\* as it is.
C13_CommentAnyLine ==
    Tokenized => \A e \in LineEnds(source), comment \in Comments : CommentIgnored(e, comment)

\* C13 amended: a comment appended to a line of a source that tokenize accepts
\* leaves the token sequence (kinds, lexemes, lines) as it is when the line does
\* not end inside a string literal.
C13_CommentOutsideStrings ==
    Tokenized =>
        /\ Lexer_tokenize(source).ok /\ Lexer_tokenize(source).tokens = tokens
        /\ \A e \in LineEnds(source), comment \in Comments :
              ~InString(source, e) => CommentIgnored(e, comment)

\* tokenize returned the tokens of a source of several lines, one of them ending
\* after a token outside every string literal and one inside a string literal
C13_Witness ==
    /\ Tokenized
    /\ Len(tokens) >= 3
    /\ \E e \in LineEnds(source) : e > 1 /\ ~InString(source, e)
    /\ \E e \in LineEnds(source) : InString(source, e)

(***************************************************************************)
(* Properties of calls and of the output                                   *)
(***************************************************************************)
\* the built-in function name is about to run on the arguments evaluated
CallingBuiltin(name) ==
    /\ Calling("BuiltinFunction")
    /\ Top.vals[1].value.obj.name = name
\* an error line or the echo of the REPL is printed
Reporting == ctl = "raise" \/ On("repl")

\* C14: the output is append-only and ordered.  No step removes or rewrites what
\* was printed; every invocation of the built-in `write` function completes and
\* appends, at the end, exactly one print of the display forms of its arguments
\* joined by single spaces (nothing but the newline for zero arguments); and
\* nothing else prints while a program is evaluated without error.
C14_OutputOrdered ==
    [][/\ Len(out') >= Len(out)
       /\ SubSeq(out', 1, Len(out)) = out
       /\ CallingBuiltin(name_gre) =>
             LET args == Tail(Top.vals)
             IN  /\ out' = Append(out, Line("", NoExc, Join(args)))
                 /\ args = <<>> => out'[Len(out')].text = <<>>
                 /\ ctl' = "return"
       /\ out' # out => CallingBuiltin(name_gre) \/ Reporting]_vars

\* a loop has printed, at each turn, the line of a nested call, the empty line of
\* a call without arguments made as an argument, and then the line of three
\* arguments of the call whose arguments these were
C14_Witness ==
    /\ Len(out) >= 6
    /\ out[1].text = <<48, 46, 48>>
    /\ out[2].text = <<>>
    /\ out[3].text = <<48, 46, 48, 32>> \o SoorjValue_str(Null) \o <<32>> \o id_b
    /\ out[4].text = <<49, 46, 48>>
    /\ out[5].text = <<>>

\* the arguments evaluated for the call that the evaluate frame `frame` makes
Arguments(frame) == Tail(frame.vals)
\* a user-defined function is about to be called with the wrong number of arguments
ArityMismatch ==
    /\ Calling("SoorjFunction")
    /\ Len(Arguments(Top)) # Len(Top.vals[1].value.obj.parameters)
\* the step raises a runtime error to the caller of the top frame
RaisesRuntimeError ==
    /\ ctl' = "raise"
    /\ exc'.type = "RuntimeError"
    /\ stack' = Below

\* C15: calling a user-defined function with a number of arguments other than its
\* number of parameters, or `tiv`/`bar` with a number of arguments other than 1,
\* raises a runtime error; for the user-defined function no environment is made
\* or becomes current, no parameter is bound, and no frame of the body is entered:
\* a body runs only for a call whose arguments match its parameters in number.
C15_ArityError ==
    /\ [][/\ ArityMismatch =>
                /\ RaisesRuntimeError
                /\ envs' = envs
                /\ environment' = environment
          /\ (CallingBuiltin(name_tiv) \/ CallingBuiltin(name_bar)) /\ Len(Arguments(Top)) # 1
                => RaisesRuntimeError /\ envs' = envs /\ environment' = environment]_vars
    /\ [](\A i \in DOMAIN stack :
             stack[i].fn = "SoorjFunction.call" =>
                Len(Arguments(stack[i - 1])) = Len(stack[i].node.parameters))

\* the arity error of a user-defined function called with too few arguments is
\* passing up the stack: the only environment is the global one, without bindings
\* of the parameter or of the name the body assigns
C15_Witness ==
    /\ ctl = "raise"
    /\ exc.type = "RuntimeError"
    /\ exc.msg = "arity"
    /\ Len(envs) = 1
    /\ Defines(envs, Root, id_f)
    /\ ~Defines(envs, Root, id_a)
    /\ ~Defines(envs, Root, id_s)

(***************************************************************************)
(* Properties of values and operators                                      *)
(***************************************************************************)
\* C16: the program that assigns 10 to a, 20 to b and calls write(a + b) writes
\* exactly the line `30`, the decimal digits of the whole number that is the sum.
C16_SumOfIntegers ==
    source = src_sum =>
        /\ Len(out) <= 1
        /\ \A i \in DOMAIN out : out[i] = Line("", NoExc, <<51, 48>>)
        /\ ctl = "halt" => Len(out) = 1

\* frame k of the stack evaluates a function call
CallFrame(k) == stack[k].fn = "evaluate" /\ stack[k].node.k = "FunctionCall"
\* the top frame is about to look up the callee of a function call
LookingUp == Running("evaluate", {"FunctionCall"}) /\ Top.pc = 0
\* the top frame is evaluating the arguments of a function call
EvaluatingArguments == Running("evaluate", {"FunctionCall"}) /\ Top.pc = 1

\* C17: a call looks its callee up in the current environment and checks its tag
\* before anything else: when the name is undefined or not bound to a function the
\* runtime error is raised at once, no argument having been evaluated and nothing
\* printed or bound.  Otherwise the arguments are evaluated one by one from left
\* to right, starting in the caller's environment, and all of them have been
\* evaluated when the function is called (its arity checked, its body entered).
C17_CallOrder ==
    /\ [][/\ LookingUp =>
                LET r == get(envs, environment, Top.node.name)
                IN  /\ Top.vals = <<>> /\ Top.i = 1
                    /\ UNCHANGED <<envs, environment, out>>
                    /\ IF r.ok /\ r.value.type_name = "function"
                       THEN stack' = Append(Below, [Top EXCEPT !.pc = 1, !.vals = <<r.value>>])
                       ELSE RaisesRuntimeError
          /\ EvaluatingArguments =>
                /\ UNCHANGED <<envs, environment, out>>
                /\ Len(stack') > Len(stack) =>
                      /\ stack'[Len(stack')].node = Top.node.arguments[Top.i]
                      /\ Len(stack'[Len(stack)].vals) = Top.i]_vars
    /\ [](\A k \in DOMAIN stack :
             CallFrame(k) =>
                /\ stack[k].pc = 0 => stack[k].vals = <<>>
                /\ stack[k].pc >= 1 => stack[k].vals[1].type_name = "function"
                /\ stack[k].pc = 1 =>
                      /\ stack[k].i <= Len(stack[k].node.arguments) + 1
                      /\ Len(stack[k].vals) \in {stack[k].i - 1, stack[k].i}
                /\ stack[k].pc >= 2 =>
                      Len(stack[k].vals) = Len(stack[k].node.arguments) + 1)

\* a user-defined function of one parameter is about to be called with two
\* arguments, evaluated in the order written: the assignment made by the first is
\* what the second has printed
C17_Witness ==
    /\ ArityMismatch
    /\ Len(Arguments(Top)) = 2
    /\ Len(out) = 1
    /\ out[1].text = <<49, 46, 48>>

\* a name that is bound to a number is called: the error is raised and the
\* assignment that is the argument has not been made
C17_WitnessNotFunction ==
    /\ ctl = "raise"
    /\ exc.msg = "is not a function"
    /\ out = <<>>
    /\ get(envs, Root, id_b).value = SoorjValue(PyFloat(0, 1), "number")

(***************************************************************************)
(* Properties of blocks and declarations                                   *)
(***************************************************************************)
BlockStatements == {"IfStatement", "WhileStatement"}
\* frame k executes an if or while statement
BlockFrame(k) == stack[k].fn = "execute" /\ stack[k].node.k \in BlockStatements
\* the top frame completes an assignment that is a statement of a then, else or
\* while block, to a name no environment of the chain binds
FirstAssignedInBlock ==
    /\ Running("evaluate", {"Assignment"})
    /\ ctl = "return"
    /\ Len(stack) >= 3
    /\ BlockFrame(Len(stack) - 2)
    /\ FirstDefining(envs, Chain(envs, environment), Top.node.target) = NoEnv
\* the step binds name to a value in the current environment and changes nothing
\* else of any environment
BindsHere(name) ==
    /\ environment' = environment
    /\ DOMAIN envs' = DOMAIN envs
    /\ Defines(envs', environment, name)
    /\ \A e \in DOMAIN envs :
          /\ envs'[e].parent = envs[e].parent
          /\ DOMAIN envs'[e].variables =
                DOMAIN envs[e].variables \cup (IF e = environment THEN {name} ELSE {})
          /\ \A n \in DOMAIN envs[e].variables :
                (e # environment \/ n # name) => envs'[e].variables[n] = envs[e].variables[n]

\* C18: an if or while statement never changes which environment is current, nor
\* any environment: whenever it is in control the current environment is the
\* global one outside every call, and inside a call the environment of the call.
\* A name first assigned inside a then, else or while block is bound in that
\* current environment, where it stays when the block ends; and a function
\* declaration binds its name in the current environment and in no other.
C18_BlockScope ==
    /\ [][/\ Running("execute", BlockStatements) => UNCHANGED <<envs, environment>>
          /\ FirstAssignedInBlock =>
                /\ BindsHere(Top.node.target)
                /\ envs'[environment].variables[Top.node.target] = val
          /\ Running("execute", {"FunctionDeclaration"}) =>
                /\ BindsHere(Top.node.name)
                /\ envs'[environment].variables[Top.node.name].type_name = "function"
                /\ envs'[environment].variables[Top.node.name].value.obj.name = Top.node.name
         ]_vars
    /\ [](Running("execute", BlockStatements) =>
             IF CallFrames = {} THEN environment = Root
             ELSE /\ environment # Root
                  /\ envs[environment].parent =
                        stack[CHOOSE j \in CallFrames : \A i \in CallFrames : i <= j].prev_env)

\* inside a call, after its if and while statements have ended: the names first
\* assigned in their blocks and the function declared in a block are bound in the
\* environment of the call, which is current, and not in the global environment
C18_Witness ==
    /\ Calling("SoorjFunction")
    /\ Top.node.name = id_g
    /\ environment # Root
    /\ \A name \in {id_a, id_s, id_g} :
          Defines(envs, environment, name) /\ ~Defines(envs, Root, name)
    /\ envs[environment].variables[id_a] = SoorjValue(PyFloat(3, 1), "number")
    /\ Defines(envs, Root, id_b)
    /\ Len(out) = 1

(***************************************************************************)
(* Properties of Interpreter.interpret                                     *)
(***************************************************************************)
\* an error, not the signal of a return statement, has reached Interpreter.interpret
ErrorAtInterpret == On("interpret") /\ ctl = "raise" /\ exc.type # "ReturnValue"

\* C19: every error raised while a parsed program executes (`%` with a right
\* operand of zero included, like `/`) is a runtime error, which interpret
\* catches and reports with the `Runtime error:` prefix before it returns
\* normally: no error leaves interpret.
C19_InterpretCatches ==
    [][ErrorAtInterpret =>
          /\ exc.type = "RuntimeError"
          /\ out' = Append(out, Line("Runtime error: ", exc, <<>>))
          /\ ctl' = "return"
          /\ stack' = Below]_vars

(***************************************************************************)
(* Properties of parameters                                                *)
(***************************************************************************)
\* the environments of the chain that starts at e
ChainSet(E, e) == {Chain(E, e)[i] : i \in DOMAIN Chain(E, e)}
\* the parameter names of the call that frame j runs
Parameters(j) == {stack[j].node.parameters[i] : i \in DOMAIN stack[j].node.parameters}
\* the step keeps the binding of name in environment e
Kept(e, name) ==
    /\ e \in DOMAIN envs'
    /\ Defines(envs', e, name)
    /\ envs'[e].variables[name] = envs[e].variables[name]

\* C20: binding the parameters of a call changes no environment that exists: the
\* parameters are bound to the arguments in a new environment, whose parent is the
\* caller's.  While the call is active no step changes a binding, in the chain of
\* its caller, of a name that is one of its parameters, whatever the body assigns;
\* and leaving the call changes no environment and makes the caller's current.
C20_ParametersShadow ==
    [][/\ (Calling("SoorjFunction") /\ ~ArityMismatch) =>
             LET func == Top.vals[1].value.obj
                 new == Len(envs) + 1
             IN  /\ DOMAIN envs' = DOMAIN envs \cup {new}
                 /\ \A e \in DOMAIN envs : envs'[e] = envs[e]
                 /\ environment' = new
                 /\ envs'[new].parent = environment
                 /\ DOMAIN envs'[new].variables =
                       {func.parameters[i] : i \in DOMAIN func.parameters}
                 /\ \A i \in DOMAIN func.parameters :
                       (\A k \in DOMAIN func.parameters : k > i => func.parameters[k] # func.parameters[i])
                          => envs'[new].variables[func.parameters[i]] = Arguments(Top)[i]
       /\ \A j \in CallFrames : \A e \in ChainSet(envs, stack[j].prev_env) :
             \A name \in Parameters(j) : Defines(envs, e, name) => Kept(e, name)
       /\ (On("SoorjFunction.call") /\ Len(stack') < Len(stack)) =>
             /\ envs' = envs
             /\ environment' = Top.prev_env]_vars

\* a call has returned the value its body assigned to its parameter, while the
\* global binding of the same name still has the value it had before the call
C20_Witness ==
    /\ CallFrames = {}
    /\ ctl = "return"
    /\ val = SoorjValue(PyFloat(7, 1), "number")
    /\ On("evaluate") /\ Top.node.k = "FunctionCall" /\ Top.node.name = id_f
    /\ environment = Root
    /\ envs[Root].variables[id_a] = SoorjValue(PyFloat(1, 1), "number")
    /\ \E e \in DOMAIN envs :
          /\ envs[e].parent = Root
          /\ Defines(envs, e, id_a)
          /\ envs[e].variables[id_a] = val

(***************************************************************************)
(* Termination of the lexer                                                *)
(***************************************************************************)
\* a Lexer at position p of the source
LexerAt(p) == [source |-> source, position |-> p, line |-> 1, column |-> 1]
\* the Lexer after is further in the source than L, and not beyond its end
Advanced(L, after) == L.position < after.position /\ after.position <= Len(source)
\* an iteration of each inner loop that starts at position p, where the guard of
\* the loop holds, raises or leaves the Lexer further in the source
InnerLoopsAdvance(p) ==
    LET L == LexerAt(p)
        char == current_char(L)
        string == read_string_iteration(L, <<>>)
    IN  /\ char \in {32, 9, 13} => Advanced(L, advance(L))
        /\ (char # NoChar /\ char # 10) => Advanced(L, advance(L))
        /\ (IsDigit(char) \/ char = 46) => Advanced(L, advance(L))
        /\ (char # NoChar /\ is_identifier_char(char)) => Advanced(L, advance(L))
        /\ char # NoChar => (~string.ok \/ Advanced(L, string.lexer))

\* C21: tokenize terminates on every source, the length of the source less the
\* position being a bound on the iterations left.  An iteration of the main loop
\* raises a lexical error or leaves the position strictly greater, and tokenize
\* returns at once when the position is the length of the source; an iteration of
\* the loops for blanks, comments, numbers, identifiers and strings, at any
\* position of the source, raises or leaves the position strictly greater; the
\* position never exceeds the length of the source; and tokenize, while it is
\* called, is never waiting for anything.
C21_TokenizeTerminates ==
    /\ [][(On("tokenize") /\ ctl = "run") =>
             IF position < Len(source)
             THEN (ctl' = "raise" /\ stack' = Below) \/ position' > position
             ELSE ctl' = "return" /\ stack' = Below /\ position' = position]_vars
    /\ [](position <= Len(source))
    /\ [](On("tokenize") => ctl = "run")
    /\ [](\A p \in 0..Len(source) : InnerLoopsAdvance(p))

\* tokenize has returned the string token of a source that ends with a backslash
\* inside a string that is not closed
C21_Witness ==
    /\ Tokenized
    /\ Len(source) >= 2
    /\ source[Len(source)] = 92
    /\ position = Len(source)
    /\ Len(tokens) = 2
    /\ tokens[1].type = "STRING"

====
